---------------------------- MODULE Spec2Model ----------------------------
(***************************************************************************)
(* ClipBook: the chat assistant's rate limiter, intent router and          *)
(* responder, tag normalisation, and the clip / playlist operations of the *)
(* dashboard over the document store.                                      *)
(*                                                                         *)
(* Strings that the code inspects (messages, tags) are sequences of        *)
(* one-character strings, so that toLowerCase, trim and includes are       *)
(* computed as the code computes them.  Times are milliseconds.            *)
(***************************************************************************)
EXTENDS Integers, Sequences, FiniteSets, TLC

VARIABLES
  \* rate limiter: the clock, the deployed variant and its cap, the bucket
  \* map of every instance, the log of accepted calls, the last invocation
  now, variant, maxReq, buckets, accepted, last,
  \* responders: the request with what it meets, and the response
  request, response,
  \* tag normalisation: the list handed in, the list after the passes made
  tagInput, tagList, tagPasses,
  \* document store: the clip and playlist documents of the signed-in user
  clipDocs, playlistDocs,
  \* dashboard: the component's state `clips` and `playlists` as the snapshot
  \* listeners last set them, the handlers that are between two awaits, and
  \* the number of handler invocations so far
  clipsSnap, playlistsSnap, replaceTask, deleteTask, opCount,
  \* chat: the component's state profileContext, the handler invocation in
  \* progress, the outbound HTTP requests and the document-store operations
  \* it has issued, and what it has returned or responded
  profileContext, invocation, netLog, storeLog, results

rateVars == <<now, variant, maxReq, buckets, accepted, last>>

respVars == <<request, response>>

tagVars == <<tagInput, tagList, tagPasses>>

storeVars == <<clipDocs, playlistDocs, clipsSnap, playlistsSnap, replaceTask, deleteTask, opCount>>

chatVars == <<profileContext, invocation, netLog, storeLog, results>>

vars == <<rateVars, respVars, tagVars, storeVars, chatVars>>

(***************************************************************************)
(* Bounds of the model.                                                    *)
(***************************************************************************)
\* the clock stops after MaxTicks advances of half a window each
MaxTicks == 2
\* the same, in the deployment with several function instances
MaxTicksInstances == 2
\* the cap that the instances of the multi-instance deployment run with:
\* withinLimit reads its cap only in the comparison recent.length >= MAX_REQ
ScaledCap == 2

(***************************************************************************)
(* Generic helpers.                                                        *)
(***************************************************************************)
\* number of occurrences of x in sequence s
Count(s, x) == Cardinality({k \in 1..Len(s) : s[k] = x})

Range(s) == {s[k] : k \in 1..Len(s)}

\* null and undefined of the code
Null == "null"

(***************************************************************************)
(* Rate limiter (withinLimit) of the two callable variants.                *)
(***************************************************************************)
WINDOW_MS == 60000
\* cap of the rule-based variant
MAX_REQ_RULE == 20
\* cap of the LLM-backed variant
MAX_REQ_LLM == 15

Variants == {"rule", "llm"}

MAX_REQ(v) == IF v = "rule" THEN MAX_REQ_RULE ELSE MAX_REQ_LLM

Instances == {"i1", "i2"}

\* context.auth.uid of the callers; NoAuth is an unauthenticated call
NoAuth == "-"
AuthUids == {"u1"}
Callers == AuthUids \cup {NoAuth}

\* a limiter that keys every caller alike
MutUidOfShared(auth) == "anonymous"
\* const uid = context.auth?.uid || "anonymous"
UidOf(auth) == IF auth = NoAuth THEN "anonymous" ELSE auth

Uids == {UidOf(a) : a \in Callers}

\* arr.filter((t) => now - t < WINDOW_MS)
MutRecentInclusive(arr, t) == SelectSeq(arr, LAMBDA x : t - x <= WINDOW_MS)
Recent(arr, t) == SelectSeq(arr, LAMBDA x : t - x < WINDOW_MS)

\* the value withinLimit returns
MutWithinLimitOffByOne(arr, t, cap) == ~(Len(Recent(arr, t)) > cap)
WithinLimitOk(arr, t, cap) == ~(Len(Recent(arr, t)) >= cap)

\* the bucket withinLimit stores back
MutBucketAlwaysPush(arr, t, cap) == Append(Recent(arr, t), t)
MutBucketForgets(arr, t, cap) ==
  IF WithinLimitOk(arr, t, cap) THEN <<t>> ELSE Recent(arr, t)
WithinLimitBucket(arr, t, cap) ==
  IF WithinLimitOk(arr, t, cap) THEN Append(Recent(arr, t), t)
  ELSE Recent(arr, t)


(***************************************************************************)
(* Strings as sequences of characters.                                     *)
(***************************************************************************)
UpperChars == <<"A", "B", "C", "D", "E", "F", "G", "H", "I", "J", "K", "L", "M",
                "N", "O", "P", "Q", "R", "S", "T", "U", "V", "W", "X", "Y", "Z">>
LowerChars == <<"a", "b", "c", "d", "e", "f", "g", "h", "i", "j", "k", "l", "m",
                "n", "o", "p", "q", "r", "s", "t", "u", "v", "w", "x", "y", "z">>

LowerChar(c) ==
  IF \E k \in 1..Len(UpperChars) : UpperChars[k] = c
  THEN LowerChars[CHOOSE k \in 1..Len(UpperChars) : UpperChars[k] = c]
  ELSE c

\* String.prototype.toLowerCase
ToLowerCase(s) == [k \in 1..Len(s) |-> LowerChar(s[k])]

WhiteSpace == {" ", "\t", "\n"}

RECURSIVE TrimStart(_)
TrimStart(s) ==
  IF s # <<>> /\ Head(s) \in WhiteSpace THEN TrimStart(Tail(s)) ELSE s

RECURSIVE TrimEnd(_)
TrimEnd(s) ==
  IF s # <<>> /\ s[Len(s)] \in WhiteSpace
  THEN TrimEnd(SubSeq(s, 1, Len(s) - 1)) ELSE s

\* String.prototype.trim
Trim(s) == TrimEnd(TrimStart(s))

\* String.prototype.includes
Includes(s, sub) ==
  \E k \in 0..(Len(s) - Len(sub)) : SubSeq(s, k + 1, k + Len(sub)) = sub

(***************************************************************************)
(* The callable hfChat up to message validation (both variants).           *)
(***************************************************************************)
RateLimitError(v) ==
  \* "Rate limit exceeded. Try again shortly." / "... Try again later."
  IF v = "rule"
  THEN [error |-> <<"R", "a", "t", "e", " ", "l", "i", "m", "i", "t", " ", "e", "x", "c", "e", "e", "d", "e", "d", ".", " ", "T", "r", "y", " ", "a", "g", "a", "i", "n", " ", "s", "h", "o", "r", "t", "l", "y", ".">>]
  ELSE [error |-> <<"R", "a", "t", "e", " ", "l", "i", "m", "i", "t", " ", "e", "x", "c", "e", "e", "d", "e", "d", ".", " ", "T", "r", "y", " ", "a", "g", "a", "i", "n", " ", "l", "a", "t", "e", "r", ".">>]

\* "Empty message"
EmptyMessageError == [error |-> <<"E", "m", "p", "t", "y", " ", "m", "e", "s", "s", "a", "g", "e">>]

\* if (!message || message.trim().length === 0)
MutIsEmptyUntrimmed(m) == m = <<>>
IsEmptyMessage(m) == m = <<>> \/ Len(Trim(m)) = 0

\* messages sent to the callable in the rate-limiter specifications
RateMessages == {<<>>, <<" ">>, <<"h", "i">>}

Idle == [op |-> "none"]

\* accepted calls of one user at one instance that are inside the window ending at t
InWindow(log, t) == Len(SelectSeq(log, LAMBDA x : x <= t /\ t - x < WINDOW_MS))

Min(S) == CHOOSE x \in S : \A y \in S : x <= y

\* time elapsed since the oldest recorded timestamp, -1 for an empty bucket
Elapsed(arr, t) == IF arr = <<>> THEN -1 ELSE t - Min(Range(arr))

\* const arr = buckets[uid] || [], buckets being the map of the instance that
\* runs the call
MutSharedBucketOf(i, uid) == buckets["i1"][uid]
BucketOf(i, uid) == buckets[i][uid]

NoRequest == [data |-> Null]

NoResponse == [by |-> "none"]

\* no handler of that kind is between two awaits
NoTask == [pc |-> "idle"]

\* no chat handler has been invoked
InitChatIdle ==
  /\ profileContext = <<>>
  /\ invocation = NoTask
  /\ netLog = <<>>
  /\ storeLog = <<>>
  /\ results = <<>>

\* no tag list is being normalised
InitTagsIdle ==
  /\ tagInput = <<>>
  /\ tagList = <<>>
  /\ tagPasses = 0

\* nobody uses the dashboard
InitStoreIdle ==
  /\ clipDocs = <<>>
  /\ playlistDocs = {}
  /\ clipsSnap = <<>>
  /\ playlistsSnap = {}
  /\ replaceTask = NoTask
  /\ deleteTask = NoTask
  /\ opCount = 0

\* no request is being answered
InitResp ==
  /\ request = NoRequest
  /\ response = NoResponse

InitRate ==
  /\ InitResp
  /\ InitTagsIdle
  /\ InitStoreIdle
  /\ InitChatIdle
  /\ now = 0
  /\ buckets = [i \in Instances |-> [u \in Uids |-> <<>>]]
  /\ accepted = [i \in Instances |-> [u \in Uids |-> <<>>]]
  /\ last = Idle

\* one deployed variant with its own cap
InitLimit ==
  /\ InitRate
  /\ variant \in Variants
  /\ maxReq = MAX_REQ(variant)

InitInstances ==
  /\ InitRate
  /\ variant \in Variants
  /\ maxReq = ScaledCap

\* one invocation of the callable at instance i: the rate-limit check, then
\* the validation of the message
HfChat(i, auth, m) ==
  LET uid == UidOf(auth)
      arr == BucketOf(i, uid)
      ok  == WithinLimitOk(arr, now, maxReq)
  IN /\ buckets' = [buckets EXCEPT ![i][uid] = WithinLimitBucket(arr, now, maxReq)]
     /\ accepted' = [accepted EXCEPT ![i][uid] = IF ok THEN Append(@, now) ELSE @]
     /\ last' = [op |-> "hfChat", inst |-> i, uid |-> uid, ok |-> ok,
                 prior |-> InWindow(accepted[i][uid], now),
                 elapsed |-> Elapsed(arr, now),
                 held |-> Len(arr),
                 result |-> IF ~ok THEN RateLimitError(variant)
                            ELSE IF IsEmptyMessage(m) THEN EmptyMessageError
                            ELSE [pending |-> TRUE]]
     /\ UNCHANGED <<now, variant, maxReq, respVars, tagVars, storeVars, chatVars>>

\* Date.now() advances by half a window, at most max times
Tick(max) ==
  /\ now < max * (WINDOW_MS \div 2)
  /\ now' = now + (WINDOW_MS \div 2)
  /\ last' = Idle
  /\ UNCHANGED <<variant, maxReq, buckets, accepted, respVars, tagVars, storeVars, chatVars>>

\* a single function instance and one signed-in caller
NextLimit ==
  \/ \E m \in RateMessages : HfChat("i1", "u1", m)
  \/ Tick(MaxTicks)

SpecLimit == InitLimit /\ [][NextLimit]_vars

\* several function instances, each with its own bucket map
NextInstances ==
  \/ \E i \in Instances, m \in RateMessages : HfChat(i, "u1", m)
  \/ Tick(MaxTicksInstances)

SpecInstances == InitInstances /\ [][NextInstances]_vars

(***************************************************************************)
(* Rate limiter: properties.                                               *)
(***************************************************************************)
\* the times at which the number of accepted calls inside a window can change
WindowEnds(log) ==
  {now} \cup Range(log) \cup {x + WINDOW_MS - 1 : x \in Range(log)}
        \cup {x + WINDOW_MS : x \in Range(log)}

\* C1: once maxReq calls of a user have been accepted inside the window, the
\* next call of that user inside the window is rejected, and the handler
\* returns the rate-limit {error}
C1_NextCallRejected ==
  (last.op = "hfChat" /\ last.prior >= maxReq)
    => (~last.ok /\ last.result = RateLimitError(variant))

C1_Witness ==
  /\ last.op = "hfChat"
  /\ last.prior >= maxReq
  /\ ~last.ok
  /\ "error" \in DOMAIN last.result

\* C2: a call made when at least WINDOW_MS has elapsed since the oldest
\* timestamp recorded in the caller's bucket is accepted, whatever calls
\* (accepted or rejected) came before
C2_AcceptedAfterWindow ==
  (last.op = "hfChat" /\ last.elapsed >= WINDOW_MS) => last.ok

\* the bucket was full (the user was being rejected) and the call is accepted
C2_Witness ==
  /\ last.op = "hfChat"
  /\ last.elapsed >= WINDOW_MS
  /\ last.held >= maxReq
  /\ last.ok

\* bucket c holds no entry that bucket b did not hold, and every entry of b
\* missing from c had expired at time t
OnlyLosesExpired(b, c, t) ==
  \A x \in Range(b) \cup Range(c) :
    /\ Count(c, x) <= Count(b, x)
    /\ Count(c, x) < Count(b, x) => t - x >= WINDOW_MS

\* C3: a rejected call leaves the caller's bucket without the new attempt
\* (the bucket only loses expired entries); an accepted call appends exactly
\* one timestamp, now; no other bucket changes
C3_RecordsOnlyAccepted ==
  [][last'.op = "hfChat" =>
       LET b == buckets[last'.inst][last'.uid]
           c == buckets'[last'.inst][last'.uid]
       IN /\ ~last'.ok => OnlyLosesExpired(b, c, now)
          /\ last'.ok =>
               /\ c # <<>>
               /\ c[Len(c)] = now
               /\ OnlyLosesExpired(b, SubSeq(c, 1, Len(c) - 1), now)
          /\ \A i \in Instances, u \in Uids :
               <<i, u>> # <<last'.inst, last'.uid>> => buckets'[i][u] = buckets[i][u]
    ]_vars

\* a call was rejected at a time of which the bucket holds no record
C3_Witness ==
  /\ last.op = "hfChat"
  /\ ~last.ok
  /\ now \notin Range(buckets[last.inst][last.uid])
  /\ Len(buckets[last.inst][last.uid]) = maxReq

\* C4: for every user and every time t, at most MAX_REQ accepted calls of the
\* deployed variant have their timestamp in the window (t - WINDOW_MS, t]
C4_WindowHoldsAtMostCap ==
  \A i \in Instances, u \in Uids :
    \A t \in WindowEnds(accepted[i][u]) :
      InWindow(accepted[i][u], t) <= MAX_REQ(variant)

\* a window that is full although older accepted calls have left it
C4_Witness ==
  \E i \in Instances, u \in Uids :
    /\ InWindow(accepted[i][u], now) = MAX_REQ(variant)
    /\ Len(accepted[i][u]) > MAX_REQ(variant)
    /\ Cardinality({x \in Range(accepted[i][u]) : now - x < WINDOW_MS}) > 1

\* accepted calls of user u inside the window ending at t, over all instances
RECURSIVE SumInWindow(_, _, _)
SumInWindow(I, u, t) ==
  IF I = {} THEN 0
  ELSE LET i == CHOOSE x \in I : TRUE
       IN InWindow(accepted[i][u], t) + SumInWindow(I \ {i}, u, t)

\* C5: each instance decides on the calls it received itself and on nothing
\* else (a call is rejected exactly when that instance accepted maxReq calls of
\* the user inside the window), so up to (number of instances) x maxReq calls
\* of one user are accepted inside one window, and never more
C5_InstanceLocalLimit ==
  /\ last.op = "hfChat" => (last.ok <=> last.prior < maxReq)
  /\ \A u \in Uids : \A t \in UNION {WindowEnds(accepted[i][u]) : i \in Instances} :
       SumInWindow(Instances, u, t) <= Cardinality(Instances) * maxReq

\* more calls than the cap accepted inside one window: every instance is full
C5_Witness ==
  \E u \in Uids :
    /\ SumInWindow(Instances, u, now) = Cardinality(Instances) * maxReq
    /\ SumInWindow(Instances, u, now) > maxReq

(***************************************************************************)
(* Text helpers of the responders.                                         *)
(***************************************************************************)
\* a || b on strings: null, undefined and "" are all the empty sequence
OrElse(a, b) == IF a # <<>> THEN a ELSE b

\* Array.prototype.slice(0, n)
Take(s, n) == SubSeq(s, 1, IF Len(s) < n THEN Len(s) ELSE n)

\* Array.prototype.slice(from, to)
Slice(s, from, to) == SubSeq(s, from + 1, IF Len(s) < to THEN Len(s) ELSE to)

RECURSIVE Join(_, _)
\* Array.prototype.join
Join(parts, sep) ==
  IF parts = <<>> THEN <<>>
  ELSE IF Len(parts) = 1 THEN parts[1]
  ELSE parts[1] \o sep \o Join(Tail(parts), sep)

DigitChars == <<"0", "1", "2", "3", "4", "5", "6", "7", "8", "9">>

RECURSIVE NumToStr(_)
\* a non-negative number inside a template literal
NumToStr(n) ==
  IF n < 10 THEN <<DigitChars[n + 1]>>
  ELSE NumToStr(n \div 10) \o <<DigitChars[(n % 10) + 1]>>

\* the characters matched by \w
WordChars == Range(UpperChars) \cup Range(LowerChars) \cup Range(DigitChars) \cup {"_"}

RECURSIVE Tokens(_, _, _, _, _)
\* s.split(separator run).filter(non-empty); a character c separates when
\* (c \in S) differs from neg: S = WhiteSpace, neg = FALSE is /\s+/ and
\* S = WordChars, neg = TRUE is /\W+/
Tokens(s, S, neg, acc, cur) ==
  IF s = <<>> THEN (IF cur = <<>> THEN acc ELSE Append(acc, cur))
  ELSE IF (Head(s) \in S) # neg
  THEN Tokens(Tail(s), S, neg, IF cur = <<>> THEN acc ELSE Append(acc, cur), <<>>)
  ELSE Tokens(Tail(s), S, neg, acc, Append(cur, Head(s)))

RECURSIVE Dedup(_)
\* the distinct elements of s in order of first occurrence (the key order
\* of an object filled in that order, the order of a Set)
Dedup(s) ==
  IF s = <<>> THEN <<>>
  ELSE LET front == Dedup(SubSeq(s, 1, Len(s) - 1))
       IN IF s[Len(s)] \in Range(front) THEN front ELSE Append(front, s[Len(s)])

RECURSIVE InsertDesc(_, _, _)
InsertDesc(x, s, key) ==
  IF s = <<>> THEN <<x>>
  ELSE IF key[Head(s)] >= key[x] THEN <<Head(s)>> \o InsertDesc(x, Tail(s), key)
  ELSE <<x>> \o s

RECURSIVE SortDesc(_, _)
\* Array.prototype.sort((a, b) => key(b) - key(a)): descending and stable
SortDesc(s, key) ==
  IF s = <<>> THEN <<>>
  ELSE InsertDesc(s[Len(s)], SortDesc(SubSeq(s, 1, Len(s) - 1), key), key)

\* [f(s[1]), f(s[2]), ...] with the 1-based index passed along
MapIdx(s, F(_, _)) == [k \in 1..Len(s) |-> F(s[k], k)]

(***************************************************************************)
(* Rule-based callable (hfChat.js): text utilities and the responders.     *)
(***************************************************************************)
\* normalize(s)
Normalize(s) == ToLowerCase(s)

\* scoreText(query, text)
ScoreText(query, text) ==
  IF query = <<>> \/ text = <<>> THEN 0
  ELSE LET q == Tokens(Normalize(query), WhiteSpace, FALSE, <<>>, <<>>)
           t == Normalize(text)
       IN Cardinality({k \in 1..Len(q) : Includes(t, q[k])})

\* shortText(s, n)
ShortText(s, n) ==
  IF s = <<>> THEN <<>>
  ELSE IF Len(s) <= n THEN s
  ELSE Trim(SubSeq(s, 1, n)) \o <<".", ".", ".">>

\* an order in which "plan" is looked for before "recommend"
MutDetectIntentPlanFirst(message) ==
  LET m == Normalize(message)
  IN IF Includes(m, <<"s", "u", "m", "m", "a", "r">>) \/ Includes(m, <<"o", "v", "e", "r", "v", "i", "e", "w">>) THEN "summarize"
     ELSE IF Includes(m, <<"p", "l", "a", "n">>) THEN "plan"
     ELSE IF Includes(m, <<"r", "e", "c", "o", "m", "m", "e", "n", "d">>) \/ Includes(m, <<"n", "e", "x", "t">>) \/ Includes(m, <<"s", "u", "g", "g", "e", "s", "t">>) THEN "recommend"
     ELSE IF Includes(m, <<"q", "u", "i", "z">>) \/ Includes(m, <<"q", "u", "e", "s", "t", "i", "o", "n">>) \/ Includes(m, <<"t", "e", "s", "t", " ", "m", "e">>) THEN "quiz"
     ELSE "search"

\* detectIntent(message)
DetectIntent(message) ==
  LET m == Normalize(message)
  IN IF Includes(m, <<"s", "u", "m", "m", "a", "r">>) \/ Includes(m, <<"o", "v", "e", "r", "v", "i", "e", "w">>)
        \/ Includes(m, <<"s", "u", "m", "m", "a", "r", "y">>) THEN "summarize"
     ELSE IF Includes(m, <<"r", "e", "c", "o", "m", "m", "e", "n", "d">>) \/ Includes(m, <<"n", "e", "x", "t">>)
        \/ Includes(m, <<"w", "h", "a", "t", " ", "n", "e", "x", "t">>) \/ Includes(m, <<"s", "u", "g", "g", "e", "s", "t">>) THEN "recommend"
     ELSE IF Includes(m, <<"q", "u", "i", "z">>) \/ Includes(m, <<"q", "u", "e", "s", "t", "i", "o", "n">>)
        \/ Includes(m, <<"t", "e", "s", "t", " ", "m", "e">>) THEN "quiz"
     ELSE IF Includes(m, <<"p", "l", "a", "n">>) \/ Includes(m, <<"s", "t", "u", "d", "y", " ", "p", "l", "a", "n">>) THEN "plan"
     ELSE IF Includes(m, <<"f", "i", "n", "d">>) \/ Includes(m, <<"s", "e", "a", "r", "c", "h">>) \/ Includes(m, <<"w", "h", "i", "c", "h">>)
        \/ Includes(m, <<"w", "h", "e", "r", "e">>) \/ Includes(m, <<"?">>) THEN "search"
     ELSE "search"

\* c.customTitle || c.title
TitleOf(c) == OrElse(c.customTitle, c.title)

\* the three most frequent words longer than 3 characters of the titles
\* (titles of the model hold no all-digit word, which Object.entries would
\* list first)
TopWords(top) ==
  LET titles == Join([k \in 1..Len(top) |-> TitleOf(top[k])], <<" ">>)
      words  == SelectSeq(Tokens(ToLowerCase(titles), WordChars, TRUE, <<>>, <<>>),
                          LAMBDA w : Len(w) > 3)
      keys   == Dedup(words)
      freq   == [w \in Range(keys) |-> Count(words, w)]
  IN Take(SortDesc(keys, freq), 3)

\* summarizeClips(clips) past its guard for an empty list
SummarizeBody(clips) ==
  LET top == Take(clips, 5)
      Bullet(c, i) ==
        NumToStr(i) \o <<".", " ">>
          \o OrElse(TitleOf(c), ShortText(OrElse(c.originalUrl, <<"U", "n", "t", "i", "t", "l", "e", "d">>), 40))
          \o <<" ", "<emdash>", " ">> \o ShortText(c.description, 120)
      topWords == TopWords(top)
  IN <<"T", "h", "i", "s", " ", "p", "l", "a", "y", "l", "i", "s", "t", " ", "c", "o", "v", "e", "r", "s", ":", " ">>
       \o (IF topWords # <<>> THEN Join(topWords, <<",", " ">>) ELSE <<"v", "a", "r", "i", "o", "u", "s", " ", "t", "o", "p", "i", "c", "s">>)
       \o <<".", " ", "K", "e", "y", " ", "v", "i", "d", "e", "o", "s", ":", "\n">>
       \o Join(MapIdx(top, Bullet), <<"\n">>)

\* summarizeClips(clips)
MutSummarizeNoGuard(clips) == SummarizeBody(clips)
SummarizeClips(clips) ==
  IF clips = <<>> THEN <<"N", "o", " ", "c", "l", "i", "p", "s", " ", "f", "o", "u", "n", "d", " ", "i", "n", " ", "t", "h", "i", "s", " ", "p", "l", "a", "y", "l", "i", "s", "t", ".">>
  ELSE SummarizeBody(clips)

NoClip == [id |-> Null]

RECURSIVE FirstNotIn(_, _)
FirstNotIn(clips, lowerPrev) ==
  IF clips = <<>> THEN NoClip
  ELSE IF Normalize(TitleOf(Head(clips))) \notin Range(lowerPrev) THEN Head(clips)
  ELSE FirstNotIn(Tail(clips), lowerPrev)

\* recommendClip(clips, previousTitles); NoClip is null
RecommendClip(clips, previousTitles) ==
  IF clips = <<>> THEN NoClip
  ELSE LET lowerPrev == [k \in 1..Len(previousTitles) |-> Normalize(previousTitles[k])]
           c == FirstNotIn(clips, lowerPrev)
       IN IF c # NoClip THEN c ELSE clips[1]

\* generateQuiz(clips, num)
GenerateQuiz(clips, num) ==
  IF clips = <<>> THEN << <<"N", "o", " ", "c", "l", "i", "p", "s", " ", "a", "v", "a", "i", "l", "a", "b", "l", "e", " ", "f", "o", "r", " ", "q", "u", "i", "z", ".">> >>
  ELSE LET top == Take(clips, IF num < Len(clips) THEN num ELSE Len(clips))
           Question(c, i) ==
             <<"W", "h", "a", "t", " ", "i", "s", " ", "t", "h", "e", " ", "m", "a", "i", "n", " ", "t", "o", "p", "i", "c", " ", "o", "f", " ", "\"">>
               \o ShortText(OrElse(TitleOf(c), <<"U", "n", "t", "i", "t", "l", "e", "d">>), 60) \o <<"\"", "?">>
       IN MapIdx(top, Question)

\* the score searchClips gives a clip: scoreText over its title and description
ClipScore(query, c) == ScoreText(query, TitleOf(c) \o <<" ">> \o c.description)

\* searchClips(clips, query, limit)
MutSearchClipsUnsorted(clips, query, limit) ==
  Take(SelectSeq(clips, LAMBDA c : ClipScore(query, c) > 0), limit)
SearchClips(clips, query, limit) ==
  LET Scored(c, i) == [clip |-> c, score |-> ClipScore(query, c)]
      scored == SelectSeq(MapIdx(clips, Scored), LAMBDA x : x.score > 0)
      key == [x \in Range(scored) |-> x.score]
      sorted == Take(SortDesc(scored, key), limit)
  IN [k \in 1..Len(sorted) |-> sorted[k].clip]

(***************************************************************************)
(* The clips and playlists the responders read.                            *)
(***************************************************************************)
\* a clip without a duration field
NoDuration == -1

ClipA ==
  [id |-> "a", customTitle |-> <<"P", "y", "t", "h", "o", "n", " ", "b", "a", "s", "i", "c", "s">>, title |-> <<>>,
   description |-> <<"L", "e", "a", "r", "n", " ", "p", "y", "t", "h", "o", "n", " ", "n", "e", "x", "t", " ", "w", "e", "e", "k">>,
   originalUrl |-> <<"h", "t", "t", "p", "s", ":", "/", "/", "y", "o", "u", "t", "u", ".", "b", "e", "/", "a">>,
   watchUrl |-> <<"h", "t", "t", "p", "s", ":", "/", "/", "w", "w", "w", ".", "y", "o", "u", "t", "u", "b", "e", ".", "c", "o", "m", "/", "w", "a", "t", "c", "h", "?", "v", "=", "a">>,
   tags |-> << <<"p", "y", "t", "h", "o", "n">> >>, playlistIds |-> {"p1"},
   watched |-> FALSE, duration |-> NoDuration, createdAt |-> 30]

\* no title, no description, a long link
ClipB ==
  [id |-> "b", customTitle |-> <<>>, title |-> <<>>,
   description |-> <<>>,
   originalUrl |-> <<"h", "t", "t", "p", "s", ":", "/", "/", "w", "w", "w", ".", "d", "a", "i", "l", "y", "m", "o", "t", "i", "o", "n", ".", "c", "o", "m", "/", "v", "i", "d", "e", "o", "/", "x", "8", "a", "b", "c", "d", "e", "f", "-", "a", "-", "l", "o", "n", "g", "-", "s", "l", "u", "g", "-", "o", "f", "-", "a", "-", "v", "i", "d", "e", "o", "-", "p", "a", "g", "e">>,
   watchUrl |-> <<>>,
   tags |-> <<>>, playlistIds |-> {"p1"},
   watched |-> TRUE, duration |-> 5, createdAt |-> 20]

\* not in playlist p1; a description longer than every snippet length
ClipC ==
  [id |-> "c", customTitle |-> <<"P", "y", "t", "h", "o", "n", " ", "p", "a", "n", "d", "a", "s", " ", "t", "u", "t", "o", "r", "i", "a", "l">>, title |-> <<>>,
   description |-> <<"P", "a", "n", "d", "a", "s", " ", "i", "n", " ", "d", "e", "p", "t", "h", ":", " ", "s", "e", "r", "i", "e", "s", ",", " ", "d", "a", "t", "a", " ", "f", "r", "a", "m", "e", "s", ",", " ", "i", "n", "d", "e", "x", "i", "n", "g", ",", " ", "g", "r", "o", "u", "p", "i", "n", "g", ",", " ", "j", "o", "i", "n", "s", ",", " ", "r", "e", "s", "h", "a", "p", "i", "n", "g", ",", " ", "t", "i", "m", "e", " ", "s", "e", "r", "i", "e", "s", ",", " ", "p", "l", "o", "t", "t", "i", "n", "g", " ", "a", "n", "d", " ", "a", " ", "l", "o", "n", "g", " ", "l", "i", "s", "t", " ", "o", "f", " ", "w", "o", "r", "k", "e", "d", " ", "e", "x", "a", "m", "p", "l", "e", "s", " ", "f", "o", "r", " ", "t", "h", "e", " ", "c", "o", "u", "r", "s", "e", ",", " ", "w", "i", "t", "h", " ", "e", "x", "e", "r", "c", "i", "s", "e", "s", " ", "a", "n", "d", " ", "s", "o", "l", "u", "t", "i", "o", "n", "s", " ", "f", "o", "r", " ", "e", "v", "e", "r", "y", " ", "c", "h", "a", "p", "t", "e", "r", " ", "o", "f", " ", "t", "h", "e", " ", "b", "o", "o", "k", ".">>,
   originalUrl |-> <<"h", "t", "t", "p", "s", ":", "/", "/", "y", "o", "u", "t", "u", ".", "b", "e", "/", "c">>,
   watchUrl |-> <<"h", "t", "t", "p", "s", ":", "/", "/", "w", "w", "w", ".", "y", "o", "u", "t", "u", "b", "e", ".", "c", "o", "m", "/", "w", "a", "t", "c", "h", "?", "v", "=", "c">>,
   tags |-> << <<"p", "a", "n", "d", "a", "s">>, <<"t", "u", "t", "o", "r", "i", "a", "l">> >>, playlistIds |-> {},
   watched |-> FALSE, duration |-> 9, createdAt |-> 10]

Numbered(k) ==
  [id |-> NumToStr(k), customTitle |-> <<"V", "i", "d", "e", "o", " ">> \o NumToStr(k), title |-> <<>>,
   description |-> <<"P", "a", "r", "t", " ">> \o NumToStr(k),
   originalUrl |-> <<"h", "t", "t", "p", "s", ":", "/", "/", "y", "o", "u", "t", "u", ".", "b", "e", "/", "n">> \o NumToStr(k),
   watchUrl |-> <<>>,
   tags |-> <<>>, playlistIds |-> {"p1"},
   watched |-> FALSE, duration |-> NoDuration, createdAt |-> k]

\* libraries of one user, newest clip first
Libraries ==
  { <<>>, <<ClipC>>, <<ClipA, ClipB, ClipC>>, [k \in 1..7 |-> Numbered(8 - k)] }

PlaylistIds == {"p1"}

\* what a request meets: who calls, the playlist selected, the name of the
\* stored playlist (empty: no such document), the stored clips, and whether
\* reads of the document store fail
Scenarios ==
  { sc \in [auth : Callers, pid : PlaylistIds \cup {Null}, plName : {<<>>, <<"C", "o", "u", "r", "s", "e">>},
            library : Libraries, fails : BOOLEAN] :
      /\ sc.fails => (sc.library = <<>> /\ sc.plName = <<>>)
      /\ sc.pid = Null => sc.plName = <<>> }

\* where("playlistIds", "array-contains", pid).orderBy("createdAt", "desc").limit(n)
ClipsOfPlaylist(library, pid, n) ==
  Take(SelectSeq(library, LAMBDA c : pid \in c.playlistIds), n)

\* fetchPlaylistClips(uid, playlistId, limit)
FetchPlaylistClips(sc, uid, pid, n) ==
  IF uid = Null \/ pid = Null THEN <<>>
  ELSE IF sc.fails THEN <<>>
  ELSE ClipsOfPlaylist(sc.library, pid, n)

(***************************************************************************)
(* hfChat.js: the callable past the rate limiter.                          *)
(***************************************************************************)
\* the intent === "recommend" branch
RecommendReply(clips) ==
  LET rec == RecommendClip(clips, <<>>)
  IN IF rec = NoClip THEN <<"N", "o", " ", "c", "l", "i", "p", "s", " ", "f", "o", "u", "n", "d", " ", "t", "o", " ", "r", "e", "c", "o", "m", "m", "e", "n", "d", ".">>
     ELSE <<"R", "e", "c", "o", "m", "m", "e", "n", "d", "e", "d", ":", " ">> \o OrElse(TitleOf(rec), rec.originalUrl)
            \o <<"\n", "\n">> \o ShortText(OrElse(rec.description, <<"N", "o", " ", "d", "e", "s", "c", "r", "i", "p", "t", "i", "o", "n">>), 300)
            \o <<"\n", "\n", "L", "i", "n", "k", ":", " ">> \o OrElse(rec.originalUrl, <<"N", "/", "A">>)

\* the intent === "quiz" branch
QuizReply(clips) ==
  LET qs == GenerateQuiz(clips, 5)
      Line(x, i) == NumToStr(i) \o <<".", " ">> \o x
  IN <<"Q", "u", "i", "z", ":", "\n">> \o Join(MapIdx(qs, Line), <<"\n">>)

\* the intent === "plan" branch
PlanReply(clips) ==
  LET items == Take(clips, 6)
      Item(c, i) == NumToStr(i) \o <<".", " ">> \o OrElse(TitleOf(c), <<"U", "n", "t", "i", "t", "l", "e", "d">>)
  IN <<"S", "t", "u", "d", "y", " ", "p", "l", "a", "n", " ", "f", "o", "r", " ", "t", "h", "i", "s", " ", "p", "l", "a", "y", "l", "i", "s", "t", " ", "(">> \o NumToStr(Len(items)) \o <<" ", "c", "l", "i", "p", "s", ")", ":">>
       \o <<"\n", "D", "a", "y", " ", "1", ":", " ", "W", "a", "t", "c", "h", " ">> \o Join(MapIdx(Slice(items, 0, 2), Item), <<",", " ">>)
       \o <<"\n", "D", "a", "y", " ", "2", ":", " ", "W", "a", "t", "c", "h", " ">>
       \o OrElse(Join(MapIdx(Slice(items, 2, 4), Item), <<",", " ">>), <<"N", "o", " ", "c", "l", "i", "p", "s">>)
       \o <<"\n", "D", "a", "y", " ", "3", ":", " ", "W", "a", "t", "c", "h", " ">>
       \o OrElse(Join(MapIdx(Slice(items, 4, 6), Item), <<",", " ">>), <<"N", "o", " ", "c", "l", "i", "p", "s">>)
       \o <<"\n", "T", "i", "p", ":", " ", "T", "a", "k", "e", " ", "n", "o", "t", "e", "s", " ", "a", "n", "d", " ", "t", "r", "y", " ", "a", " ", "s", "h", "o", "r", "t", " ", "r", "e", "c", "a", "p", " ", "a", "f", "t", "e", "r", " ", "e", "a", "c", "h", " ", "v", "i", "d", "e", "o", ".">>

\* the fallback reply
FallbackReply ==
  <<"I", " ", "c", "o", "u", "l", "d", "n", "'", "t", " ", "f", "i", "n", "d", " ", "d", "i", "r", "e", "c", "t", " ", "m", "a", "t", "c", "h", "e", "s", ".", " ", "T", "r", "y", " ", "a", "s", "k", "i", "n", "g", ":", "\n", "-", " ", "\"", "s", "u", "m", "m", "a", "r", "i", "z", "e", " ", "p", "l", "a", "y", "l", "i", "s", "t", "\"", "\n", "-", " ", "\"", "r", "e", "c", "o", "m", "m", "e", "n", "d", " ", "n", "e", "x", "t", "\"", "\n", "-", " ", "\"", "q", "u", "i", "z", " ", "m", "e", "\"", "\n", "O", "r", " ", "i", "n", "c", "l", "u", "d", "e", " ", "k", "e", "y", "w", "o", "r", "d", "s", " ", "f", "r", "o", "m", " ", "t", "h", "e", " ", "v", "i", "d", "e", "o", " ", "t", "i", "t", "l", "e", " ", "o", "r", " ", "d", "e", "s", "c", "r", "i", "p", "t", "i", "o", "n", ".">>

\* the default branch: search/match
SearchReply(clips, message) ==
  LET matches == IF clips # <<>> THEN SearchClips(clips, message, 5) ELSE <<>>
      Line(c, i) ==
        NumToStr(i) \o <<".", " ">> \o OrElse(TitleOf(c), <<"U", "n", "t", "i", "t", "l", "e", "d">>)
          \o <<" ", "<emdash>", " ">> \o ShortText(c.description, 160)
          \o <<"\n", "L", "i", "n", "k", ":", " ">> \o OrElse(c.originalUrl, <<"N", "/", "A">>)
  IN IF matches # <<>>
     THEN <<"F", "o", "u", "n", "d", " ">> \o NumToStr(Len(matches)) \o <<" ", "r", "e", "l", "e", "v", "a", "n", "t", " ", "c", "l", "i", "p", "s", ":", "\n", "\n">>
            \o Join(MapIdx(matches, Line), <<"\n", "\n">>)
     ELSE FallbackReply

\* the body of the callable after withinLimit: validation, the read of the
\* playlist's clips, the intent and its reply
HfChatRule(data, sc) ==
  LET uid == UidOf(sc.auth)
      message == data.message
  IN IF IsEmptyMessage(message) THEN [branch |-> "none", result |-> EmptyMessageError]
     ELSE LET clips == IF data.playlistId # Null
                       THEN FetchPlaylistClips(sc, uid, data.playlistId, 25) ELSE <<>>
              intent == DetectIntent(message)
          IN [branch |-> intent,
              result |->
                [reply |->
                   CASE intent = "summarize" -> SummarizeClips(clips)
                     [] intent = "recommend" -> RecommendReply(clips)
                     [] intent = "quiz" -> QuizReply(clips)
                     [] intent = "plan" -> PlanReply(clips)
                     [] OTHER -> SearchReply(clips, message)]]

(***************************************************************************)
(* ChatAI_free.jsx: the assistant that runs in the browser.                *)
(***************************************************************************)
\* shortText(text, max)
ShortTextFree(text, max) ==
  IF text = <<>> THEN <<>>
  ELSE IF Len(text) > max THEN SubSeq(text, 1, max - 1) \o <<"<ellipsis>">>
  ELSE text

StopWords ==
  { <<"t", "h", "e">>, <<"i", "s">>, <<"i", "n">>, <<"a", "n", "d">>, <<"t", "o">>, <<"o", "f">>, <<"f", "o", "r">>, <<"w", "i", "t", "h">>,
    <<"o", "n">>, <<"b", "y">>, <<"a", "n">>, <<"b", "e">> }

\* extractKeywordsFromTitle(title)
ExtractKeywordsFromTitle(title) ==
  IF title = <<>> THEN <<>>
  ELSE LET low == ToLowerCase(title)
           kept == Range(LowerChars) \cup Range(DigitChars) \cup WhiteSpace
           spaced == [k \in 1..Len(low) |-> IF low[k] \in kept THEN low[k] ELSE " "]
           words == Tokens(spaced, WhiteSpace, FALSE, <<>>, <<>>)
       IN Take(SelectSeq(words, LAMBDA w : Len(w) > 3 /\ w \notin StopWords), 6)

RECURSIVE UpToSpace(_)
\* s.split(" ")[0]
UpToSpace(s) ==
  IF s = <<>> \/ Head(s) = " " THEN <<>> ELSE <<Head(s)>> \o UpToSpace(Tail(s))

\* fetchPlaylistContext(uid, pid)
FetchPlaylistContext(sc, uid, pid) ==
  IF uid = Null \/ pid = Null THEN [playlist |-> <<>>, clips |-> <<>>]
  ELSE IF sc.fails THEN [playlist |-> <<>>, clips |-> <<>>]
  ELSE [playlist |-> sc.plName, clips |-> ClipsOfPlaylist(sc.library, pid, 200)]

HelpReply ==
  <<"I", " ", "c", "a", "n", ":", "\n", "-", " ", "S", "u", "m", "m", "a", "r", "i", "z", "e", " ", "a", " ", "p", "l", "a", "y", "l", "i", "s", "t", ":", " ", "\"", "s", "u", "m", "m", "a", "r", "i", "z", "e", " ", "p", "l", "a", "y", "l", "i", "s", "t", "\"", "\n", "-", " ", "R", "e", "c", "o", "m", "m", "e", "n", "d", " ", "n", "e", "x", "t", ":", " ", "\"", "r", "e", "c", "o", "m", "m", "e", "n", "d", " ", "n", "e", "x", "t", "\"", "\n", "-", " ", "C", "r", "e", "a", "t", "e", " ", "a", " ", "s", "t", "u", "d", "y", " ", "p", "l", "a", "n", ":", " ", "\"", "s", "t", "u", "d", "y", " ", "p", "l", "a", "n", "\"", "\n", "-", " ", "M", "a", "k", "e", " ", "a", " ", "q", "u", "i", "z", ":", " ", "\"", "q", "u", "i", "z", " ", "m", "e", "\"", "\n", "S", "e", "l", "e", "c", "t", " ", "a", " ", "p", "l", "a", "y", "l", "i", "s", "t", " ", "i", "n", " ", "t", "h", "e", " ", "U", "I", " ", "f", "i", "r", "s", "t", " ", "f", "o", "r", " ", "p", "l", "a", "y", "l", "i", "s", "t", "-", "s", "p", "e", "c", "i", "f", "i", "c", " ", "a", "n", "s", "w", "e", "r", "s", ".">>

SignInReply == <<"S", "i", "g", "n", " ", "i", "n", " ", "t", "o", " ", "u", "s", "e", " ", "p", "l", "a", "y", "l", "i", "s", "t", " ", "f", "e", "a", "t", "u", "r", "e", "s", ".">>

NoPlaylistReply == <<"N", "o", " ", "p", "l", "a", "y", "l", "i", "s", "t", " ", "s", "e", "l", "e", "c", "t", "e", "d", ".", " ", "S", "e", "l", "e", "c", "t", " ", "a", " ", "p", "l", "a", "y", "l", "i", "s", "t", " ", "a", "n", "d", " ", "t", "r", "y", " ", "a", "g", "a", "i", "n", ".">>

PlaylistEmptyReply == <<"P", "l", "a", "y", "l", "i", "s", "t", " ", "e", "m", "p", "t", "y", ".">>

\* c.customTitle || shortText(c.originalUrl, 60)
TitleFree(c, n) == OrElse(c.customTitle, ShortTextFree(c.originalUrl, n))

\* the summarize branch past the checks of uid and pid
SummarizeFree(ctx) ==
  IF ctx.playlist = <<>> THEN <<"P", "l", "a", "y", "l", "i", "s", "t", " ", "n", "o", "t", " ", "f", "o", "u", "n", "d", " ", "o", "r", " ", "e", "m", "p", "t", "y", ".">>
  ELSE IF ctx.clips = <<>> THEN <<"P", "l", "a", "y", "l", "i", "s", "t", " ", "\"">> \o ctx.playlist \o <<"\"", " ", "l", "o", "o", "k", "s", " ", "e", "m", "p", "t", "y", ".">>
  ELSE LET Line(c, i) ==
             NumToStr(i) \o <<".", " ">> \o TitleFree(c, 40)
               \o <<" ", "<emdash>", " ">> \o ShortTextFree(c.description, 80)
       IN <<"P", "l", "a", "y", "l", "i", "s", "t", " ", "\"">> \o ctx.playlist \o <<"\"", " ", "<emdash>", " ">> \o NumToStr(Len(ctx.clips))
            \o <<" ", "v", "i", "d", "e", "o", "(", "s", ")", ":", "\n">> \o Join(MapIdx(Take(ctx.clips, 12), Line), <<"\n">>)

\* the candidate of the recommend branch among the clips of a playlist that
\* is not empty (lines 93-101)
RecommendCandidate(clips) ==
  LET unwatched == SelectSeq(clips, LAMBDA c : ~c.watched)
      first == IF unwatched # <<>> THEN unwatched[1] ELSE clips[1]
      withDur == SelectSeq(clips, LAMBDA c : c.duration # NoDuration)
      key == [c \in Range(withDur) |-> 0 - c.duration]
      shortOne == SortDesc(withDur, key)[1]
  IN IF withDur # <<>> /\ ~shortOne.watched THEN shortOne ELSE first

\* the recommend branch past the checks of uid and pid
RecommendFree(ctx) ==
  IF ctx.clips = <<>> THEN PlaylistEmptyReply
  ELSE LET candidate == RecommendCandidate(ctx.clips)
       IN <<"R", "e", "c", "o", "m", "m", "e", "n", "d", "e", "d", " ", "n", "e", "x", "t", ":", " ">> \o TitleFree(candidate, 60)
            \o <<"\n", "O", "p", "e", "n", ":", " ">>
            \o OrElse(OrElse(candidate.watchUrl, candidate.originalUrl), <<"N", "o", " ", "l", "i", "n", "k", " ", "a", "v", "a", "i", "l", "a", "b", "l", "e">>)

\* the study-plan branch past the checks of uid and pid
PlanFree(ctx) ==
  IF ctx.clips = <<>> THEN PlaylistEmptyReply
  ELSE LET key == [c \in Range(ctx.clips) |-> 0 - c.createdAt]
           \* [...clips].sort((a, b) => a.createdAt - b.createdAt)
           ordered == SortDesc(ctx.clips, key)
           Line(c, i) == NumToStr(i) \o <<".", " ">> \o TitleFree(c, 60)
       IN <<"S", "t", "u", "d", "y", " ", "p", "l", "a", "n", " ", "f", "o", "r", " ", "\"">> \o OrElse(ctx.playlist, <<"p", "l", "a", "y", "l", "i", "s", "t">>) \o <<"\"", ":", "\n">>
            \o Join(MapIdx(Take(ordered, 20), Line), <<"\n">>)

\* the quiz branch past the checks of uid and pid
QuizFree(ctx) ==
  IF ctx.clips = <<>> THEN PlaylistEmptyReply
  ELSE LET Line(c, i) ==
             LET keywords == ExtractKeywordsFromTitle(c.customTitle)
                 kw == IF keywords # <<>> THEN keywords[1]
                       ELSE OrElse(UpToSpace(c.customTitle), <<"t", "o", "p", "i", "c">>)
             IN NumToStr(i) \o <<".", " ", "W", "h", "a", "t", " ", "i", "s", " ", "t", "h", "e", " ", "m", "a", "i", "n", " ", "i", "d", "e", "a", " ", "o", "f", " ", "\"">>
                  \o ShortTextFree(c.customTitle, 60) \o <<"\"", "?", " ", "(", "H", "i", "n", "t", ":", " ">> \o kw \o <<")">>
       IN <<"Q", "u", "i", "c", "k", " ", "q", "u", "i", "z", " ", "(", "s", "h", "o", "r", "t", " ", "a", "n", "s", "w", "e", "r", "s", ")", ":", "\n">> \o Join(MapIdx(Take(ctx.clips, 6), Line), <<"\n">>)

\* the library search of the last branch
SearchFree(sc, uid, msg) ==
  IF uid = Null THEN [reply |-> <<"S", "i", "g", "n", " ", "i", "n", " ", "t", "o", " ", "s", "e", "a", "r", "c", "h", " ", "y", "o", "u", "r", " ", "c", "l", "i", "p", "s", ".">>]
  ELSE IF sc.fails THEN [thrown |-> "getDocs"]
  ELSE LET clips == Take(sc.library, 200)
           Matches(c) ==
             \/ Includes(ToLowerCase(c.customTitle) \o <<" ">> \o ToLowerCase(c.description), msg)
             \/ \E k \in 1..Len(c.tags) : Includes(ToLowerCase(c.tags[k]), msg)
           matches == SelectSeq(clips, Matches)
           Line(c, i) ==
             NumToStr(i) \o <<".", " ">> \o TitleFree(c, 60) \o <<" ", "<emdash>", " ">>
               \o ShortTextFree(c.description, 80)
               \o <<"\n", "O", "p", "e", "n", ":", " ">> \o OrElse(c.watchUrl, c.originalUrl)
       IN IF matches = <<>> THEN [reply |-> <<"N", "o", " ", "m", "a", "t", "c", "h", "i", "n", "g", " ", "c", "l", "i", "p", "s", " ", "f", "o", "u", "n", "d", " ", "i", "n", " ", "y", "o", "u", "r", " ", "l", "i", "b", "r", "a", "r", "y", ".">>]
          ELSE [reply |-> <<"F", "o", "u", "n", "d", " ">> \o NumToStr(Len(matches)) \o <<" ", "m", "a", "t", "c", "h", "i", "n", "g", " ", "c", "l", "i", "p", "(", "s", ")", ":", "\n">>
                  \o Join(MapIdx(Take(matches, 8), Line), <<"\n", "\n">>)]

\* a playlist branch: the checks of uid and pid, the read, the reply
PlaylistBranch(sc, uid, pid, Reply(_)) ==
  IF uid = Null THEN [reply |-> SignInReply]
  ELSE IF pid = Null THEN [reply |-> NoPlaylistReply]
  ELSE [reply |-> Reply(FetchPlaylistContext(sc, uid, pid))]

\* handleMessageRaw(text) with the component's playlistId; auth.currentUser
\* is null for a visitor who is not signed in
HandleMessageRaw(text, pid, sc) ==
  LET uid == IF sc.auth = NoAuth THEN Null ELSE sc.auth
      msg == ToLowerCase(Trim(text))
  IN IF msg = <<"h", "e", "l", "p">> \/ msg = <<"w", "h", "a", "t", " ", "c", "a", "n", " ", "y", "o", "u", " ", "d", "o">>
     THEN [branch |-> "help", result |-> [reply |-> HelpReply]]
     ELSE IF Includes(msg, <<"p", "l", "a", "y", "l", "i", "s", "t">>) \/ Includes(msg, <<"s", "u", "m", "m", "a", "r", "i", "z", "e">>)
             \/ Includes(msg, <<"w", "h", "a", "t", "'", "s", " ", "i", "n">>) \/ Includes(msg, <<"w", "h", "a", "t", " ", "i", "s", " ", "i", "n">>)
     THEN [branch |-> "summarize", result |-> PlaylistBranch(sc, uid, pid, SummarizeFree)]
     ELSE IF Includes(msg, <<"r", "e", "c", "o", "m", "m", "e", "n", "d">>) \/ Includes(msg, <<"n", "e", "x", "t">>)
             \/ Includes(msg, <<"w", "h", "a", "t", " ", "t", "o", " ", "w", "a", "t", "c", "h">>)
     THEN [branch |-> "recommend", result |-> PlaylistBranch(sc, uid, pid, RecommendFree)]
     ELSE IF Includes(msg, <<"s", "t", "u", "d", "y", " ", "p", "l", "a", "n">>) \/ Includes(msg, <<"o", "r", "d", "e", "r">>)
             \/ Includes(msg, <<"l", "e", "a", "r", "n", "i", "n", "g", " ", "p", "a", "t", "h">>)
     THEN [branch |-> "plan", result |-> PlaylistBranch(sc, uid, pid, PlanFree)]
     ELSE IF Includes(msg, <<"q", "u", "i", "z">>) \/ Includes(msg, <<"q", "u", "e", "s", "t", "i", "o", "n">>)
             \/ Includes(msg, <<"q", "u", "i", "z", " ", "m", "e">>)
     THEN [branch |-> "quiz", result |-> PlaylistBranch(sc, uid, pid, QuizFree)]
     ELSE IF Len(msg) > 2
     THEN [branch |-> "search", result |-> SearchFree(sc, uid, msg)]
     ELSE [branch |-> "unknown",
           result |-> [reply |-> <<"I", " ", "d", "i", "d", "n", "'", "t", " ", "u", "n", "d", "e", "r", "s", "t", "a", "n", "d", " ", "t", "h", "a", "t", ".", " ", "T", "r", "y", ":", " ", "'", "s", "u", "m", "m", "a", "r", "i", "z", "e", " ", "p", "l", "a", "y", "l", "i", "s", "t", "'", ",", " ", "'", "r", "e", "c", "o", "m", "m", "e", "n", "d", " ", "n", "e", "x", "t", "'", ",", " ", "'", "s", "t", "u", "d", "y", " ", "p", "l", "a", "n", "'", ",", " ", "o", "r", " ", "'", "q", "u", "i", "z", " ", "m", "e", "'", ".">>]]

(***************************************************************************)
(* The responders as functions of the request.                             *)
(***************************************************************************)
\* the pieces the messages of the model are made of
Fragments ==
  { <<"s", "u", "m", "m", "a", "r">>, <<"S", "U", "M">>, <<"m", "A", "r">>, <<"y">>, <<"r", "e", "c", "o", "m", "m", "e", "n", "d">>, <<"N", "e", "x", "t">>, <<"q", "u", "i", "z">>,
    <<"p", "l", "a", "n">>, <<"?">>, <<" ">>, <<"p", "l", "a", "y", "l", "i", "s", "t">>, <<"p", "y", "t", "h", "o", "n">>, <<"h", "e", "l", "p">>,
    <<"s", "t", "u", "d", "y", " ", "p", "l", "a", "n">> }

\* a message is at most MaxFragments fragments long
MaxFragments == 2

RECURSIVE MessagesOf(_)
MessagesOf(n) ==
  IF n = 0 THEN {<<>>}
  ELSE LET shorter == MessagesOf(n - 1)
       IN shorter \cup {m \o f : m \in shorter, f \in Fragments}

Messages == MessagesOf(MaxFragments)

\* the rate limiter is idle while the responders are examined
InitRateIdle ==
  /\ now = 0
  /\ variant = "rule"
  /\ maxReq = MAX_REQ("rule")
  /\ buckets = [i \in Instances |-> [u \in Uids |-> <<>>]]
  /\ accepted = [i \in Instances |-> [u \in Uids |-> <<>>]]
  /\ last = Idle

InitRespond ==
  /\ InitRateIdle
  /\ InitTagsIdle
  /\ InitStoreIdle
  /\ InitChatIdle
  /\ request \in [data : [message : Messages, playlistId : PlaylistIds \cup {Null}],
                  sc : Scenarios]
  /\ request.data.playlistId = request.sc.pid
  /\ response = NoResponse

\* the rule-based callable answers the request
RespondRule ==
  /\ response = NoResponse
  /\ response' = [by |-> "rule"] @@ HfChatRule(request.data, request.sc)
  /\ UNCHANGED <<request, rateVars, tagVars, storeVars, chatVars>>

\* the browser assistant answers the request
RespondFree ==
  /\ response = NoResponse
  /\ response' = [by |-> "free"]
                   @@ HandleMessageRaw(request.data.message, request.data.playlistId, request.sc)
  /\ UNCHANGED <<request, rateVars, tagVars, storeVars, chatVars>>

NextRespond == RespondRule \/ RespondFree

SpecRespond == InitRespond /\ [][NextRespond]_vars

(***************************************************************************)
(* Routing and the replies for a playlist without clips.                   *)
(***************************************************************************)
\* the request has been answered by one of the responders
Answered == response.by # "none"

\* C6: every message that contains "summar" in any letter case is routed to
\* the summarize branch, by the rule-based callable and by the browser
\* assistant alike, whatever else the message contains.
C6_SummarSelectsSummarize ==
  (Answered /\ Includes(ToLowerCase(request.data.message), <<"s", "u", "m", "m", "a", "r">>))
    => response.branch = "summarize"

\* a message with "summar" that the browser assistant has answered
C6_Witness ==
  /\ response.by = "free"
  /\ Includes(ToLowerCase(request.data.message), <<"s", "u", "m", "m", "a", "r">>)
  /\ ~Includes(ToLowerCase(request.data.message), <<"s", "u", "m", "m", "a", "r", "i", "z", "e">>)

\* the branches that answer from the clips of the selected playlist
PlaylistBranches == {"summarize", "recommend", "quiz", "plan"}

\* a playlist is selected and holds no clip; the browser assistant reads it
\* for a signed-in user only
ZeroClips(by) ==
  /\ request.sc.pid # Null
  /\ SelectSeq(request.sc.library, LAMBDA c : request.sc.pid \in c.playlistIds) = <<>>
  /\ by = "free" => request.sc.auth # NoAuth

\* the text tells the user that there are no clips
SaysNoClips(text) ==
  \/ Includes(ToLowerCase(text), <<"n", "o", " ", "c", "l", "i", "p", "s">>)
  \/ Includes(ToLowerCase(text), <<"e", "m", "p", "t", "y">>)

\* what the responder `by` answers to message m in the scenario of the request
Answer(by, m) ==
  IF by = "rule"
  THEN HfChatRule([message |-> m, playlistId |-> request.data.playlistId], request.sc)
  ELSE HandleMessageRaw(m, request.data.playlistId, request.sc)

NormalizeTag(t) == ToLowerCase(Trim(t))

\* a variant that removes duplicates before the tags are normalised
MutNormalizeTagsDedupFirst(tags) ==
  Take(SelectSeq([k \in 1..Len(Dedup(tags)) |-> NormalizeTag(Dedup(tags)[k])],
                 LAMBDA t : t # <<>>), 3)

\* Array.from(new Set(tags.map(normalizeTag))).filter(Boolean).slice(0, 3)
NormalizeTags(tags) ==
  Take(SelectSeq(Dedup([k \in 1..Len(tags) |-> NormalizeTag(tags[k])]),
                 LAMBDA t : t # <<>>), 3)

\* the tags that the lists of the model are made of
RawTags == { <<"a">>, <<"A", " ">>, <<" ", "b">>, <<"c">>, <<"d">>, <<" ">> }

\* a list handed to the normalisation holds at most MaxTags tags
MaxTags == 5

\* the normalisation is applied at most MaxPasses times in a row
MaxPasses == 2

RECURSIVE ListsOf(_, _)
\* the lists of at most n elements of S
ListsOf(S, n) ==
  IF n = 0 THEN {<<>>}
  ELSE LET shorter == ListsOf(S, n - 1)
       IN shorter \cup {Append(l, x) : l \in shorter, x \in S}

InitTags ==
  /\ InitRateIdle
  /\ InitResp
  /\ InitStoreIdle
  /\ InitChatIdle
  /\ tagInput \in ListsOf(RawTags, MaxTags)
  /\ tagList = tagInput
  /\ tagPasses = 0

\* one more pass of the normalisation over the list
NormalizePass ==
  /\ tagPasses < MaxPasses
  /\ tagList' = NormalizeTags(tagList)
  /\ tagPasses' = tagPasses + 1
  /\ UNCHANGED <<tagInput, rateVars, respVars, storeVars, chatVars>>

NextTags == NormalizePass

SpecTags == InitTags /\ [][NextTags]_vars

\* the distinct non-empty normalised tags of a list
DistinctTags(tags) == {NormalizeTag(tags[k]) : k \in 1..Len(tags)} \ {<<>>}

\* C8: the normalisation is idempotent (a further pass over a normalised
\* list returns the same list), duplicate tags collapse to one, and a list
\* with more than 3 distinct tags is cut to its first 3.
C8_NormalizationIdempotent ==
  tagPasses >= 1 =>
    /\ tagList = NormalizeTags(tagInput)
    /\ \A j, k \in 1..Len(tagList) : tagList[j] = tagList[k] => j = k
    /\ Range(tagList) \subseteq DistinctTags(tagInput)
    /\ Len(tagList) = IF Cardinality(DistinctTags(tagInput)) > 3 THEN 3
                      ELSE Cardinality(DistinctTags(tagInput))

\* a second pass has been made over a list that had duplicates and more than
\* 3 distinct tags
C8_Witness ==
  /\ tagPasses = 2
  /\ Cardinality(DistinctTags(tagInput)) > 3
  /\ \E j, k \in 1..Len(tagInput) : j # k /\ NormalizeTag(tagInput[j]) = NormalizeTag(tagInput[k])
                                     /\ NormalizeTag(tagInput[j]) # <<>>
  /\ Len(tagList) = 3

(***************************************************************************)
(* The document store: users/{uid}/clips and users/{uid}/playlists of the  *)
(* signed-in user, and the dashboard state that the snapshot listeners     *)
(* set.  A write that a handler awaits is applied when the handler's step  *)
(* is taken; between two awaits of a handler other handlers may run.       *)
(***************************************************************************)
\* the ids that addDoc may hand out to clips, in the order of the store
ClipOrder == <<"c1", "c2", "c3">>

ClipIds == Range(ClipOrder)

\* the playlists of the user
StorePlaylists == {"p1", "p2"}

\* a clip id that addDoc has not handed out yet
NoDoc == [state |-> "absent", tags |-> <<>>, playlistIds |-> <<>>]

\* a clip document that deleteDoc removed
DeletedDoc == [state |-> "deleted", tags |-> <<>>, playlistIds |-> <<>>]

\* a clip that is not in the component's state `clips`
Unknown == [known |-> FALSE, tags |-> <<>>, playlistIds |-> <<>>]

Live(c) == clipDocs[c].state = "live"

LiveClips(docs) == {c \in ClipIds : docs[c].state = "live"}

\* arrayUnion(x) applied to a stored array
ArrayUnion(arr, x) == IF x \in Range(arr) THEN arr ELSE Append(arr, x)

\* arrayRemove(x) applied to a stored array
ArrayRemove(arr, x) == SelectSeq(arr, LAMBDA y : y # x)

\* what onSnapshot delivers for the clips collection
SnapshotOf(docs) ==
  [c \in ClipIds |->
     IF docs[c].state = "live"
     THEN [known |-> TRUE, tags |-> docs[c].tags, playlistIds |-> docs[c].playlistIds]
     ELSE Unknown]

\* two clips in playlist p1, one of them with two tags; both listeners have
\* delivered the current documents
InitStore ==
  /\ clipDocs = [c \in ClipIds |->
                   CASE c = "c1" -> [state |-> "live", tags |-> <<<<"a">>, <<"b">>>>, playlistIds |-> <<"p1">>]
                     [] c = "c2" -> [state |-> "live", tags |-> <<>>, playlistIds |-> <<"p1">>]
                     [] OTHER -> NoDoc]
  /\ playlistDocs = StorePlaylists
  /\ clipsSnap = SnapshotOf(clipDocs)
  /\ playlistsSnap = playlistDocs
  /\ replaceTask = NoTask
  /\ deleteTask = NoTask
  /\ opCount = 0

\* the handlers are invoked at most max times
Invoked(max) ==
  /\ opCount < max
  /\ opCount' = opCount + 1

\* the listener of the clips collection: setClips(snapshot documents)
ClipsSnapshot ==
  /\ clipsSnap # SnapshotOf(clipDocs)
  /\ clipsSnap' = SnapshotOf(clipDocs)
  /\ UNCHANGED <<clipDocs, playlistDocs, playlistsSnap, replaceTask, deleteTask, opCount,
                 rateVars, respVars, tagVars, chatVars>>

\* the listener of the playlists collection: setPlaylists(snapshot documents)
PlaylistsSnapshot ==
  /\ playlistsSnap # playlistDocs
  /\ playlistsSnap' = playlistDocs
  /\ UNCHANGED <<clipDocs, playlistDocs, clipsSnap, replaceTask, deleteTask, opCount,
                 rateVars, respVars, tagVars, chatVars>>

\* what the tag generators may return for a new clip
GeneratedTags ==
  { <<>>, <<<<"A", " ">>, <<"a">>, <<" ", "b">>>>, <<<<"a">>, <<"b">>, <<"c">>, <<"d">>>> }

\* save(): the generated tags are normalised and the clip is added
Save(generated, max) ==
  /\ Invoked(max)
  /\ \E c \in ClipIds :
       /\ clipDocs[c].state = "absent"
       /\ clipDocs' = [clipDocs EXCEPT ![c] =
                         [state |-> "live", tags |-> NormalizeTags(generated), playlistIds |-> <<>>]]
  /\ UNCHANGED <<playlistDocs, clipsSnap, playlistsSnap, replaceTask, deleteTask,
                 rateVars, respVars, tagVars, chatVars>>

\* clip.tags.map(normalizeTag) of the clip in the component's state
CurrentTags(c) == [k \in 1..Len(clipsSnap[c].tags) |-> NormalizeTag(clipsSnap[c].tags[k])]

\* what the user may type into a tag field
TagInputs == { <<" ", "C">>, <<"d">>, <<" ">> }

\* addTagToClip(clipId, tagValue)
AddTagToClip(c, tagValue, max) ==
  LET tag == NormalizeTag(tagValue)
  IN /\ Invoked(max)
     /\ clipsSnap[c].known
     /\ clipDocs' =
          IF tag = <<>> \/ tag \in Range(CurrentTags(c)) \/ Len(CurrentTags(c)) >= 3 \/ ~Live(c)
          THEN clipDocs
          ELSE [clipDocs EXCEPT ![c].tags = ArrayUnion(@, tag)]
     /\ UNCHANGED <<playlistDocs, clipsSnap, playlistsSnap, replaceTask, deleteTask,
                    rateVars, respVars, tagVars, chatVars>>

\* deleteTagFromClip(clipId, tagToRemove), for a tag that the clip shows
DeleteTagFromClip(c, tagToRemove, max) ==
  /\ Invoked(max)
  /\ clipsSnap[c].known
  /\ tagToRemove \in Range(clipsSnap[c].tags)
  /\ clipDocs' = IF Live(c) THEN [clipDocs EXCEPT ![c].tags = ArrayRemove(@, tagToRemove)]
                 ELSE clipDocs
  /\ UNCHANGED <<playlistDocs, clipsSnap, playlistsSnap, replaceTask, deleteTask,
                 rateVars, respVars, tagVars, chatVars>>

\* replaceTagOnClip(clipId, oldTag, newTagRaw) up to its first awaited write;
\* when the second write is to follow, the handler waits in replaceTask
ReplaceTagOnClip(c, oldTag, newTagRaw, max) ==
  LET newTag == NormalizeTag(newTagRaw)
      current == CurrentTags(c)
      removes == newTag # <<>> /\ ~(Len(current) >= 3 /\ oldTag \notin Range(current)
                                    /\ newTag \notin Range(current))
  IN /\ Invoked(max)
     /\ replaceTask = NoTask
     /\ clipsSnap[c].known
     /\ oldTag \in Range(clipsSnap[c].tags)
     /\ clipDocs' = IF removes /\ Live(c)
                    THEN [clipDocs EXCEPT ![c].tags = ArrayRemove(@, oldTag)]
                    ELSE clipDocs
     /\ replaceTask' = IF removes /\ Live(c) /\ newTag \notin Range(current)
                       THEN [pc |-> "arrayUnion", clip |-> c, newTag |-> newTag]
                       ELSE NoTask
     /\ UNCHANGED <<playlistDocs, clipsSnap, playlistsSnap, deleteTask,
                    rateVars, respVars, tagVars, chatVars>>

\* replaceTagOnClip after its first write: the awaited arrayUnion(newTag);
\* on a document that is gone the write is rejected and the error is caught
ReplaceTagUnion ==
  /\ replaceTask # NoTask
  /\ clipDocs' = IF Live(replaceTask.clip)
                 THEN [clipDocs EXCEPT ![replaceTask.clip].tags = ArrayUnion(@, replaceTask.newTag)]
                 ELSE clipDocs
  /\ replaceTask' = NoTask
  /\ UNCHANGED <<playlistDocs, clipsSnap, playlistsSnap, deleteTask, opCount,
                 rateVars, respVars, tagVars, chatVars>>

\* raw.split(",").map(t => t.trim()).filter(Boolean)
EditedTags(raw) ==
  LET pieces == Tokens(raw, {","}, FALSE, <<>>, <<>>)
  IN SelectSeq([k \in 1..Len(pieces) |-> Trim(pieces[k])], LAMBDA t : t # <<>>)

\* what the user may type into the prompt of editTags
EditInputs == { <<>>, <<"A", ",", "b">>, <<"c", ",", " ", "d", " ", ",", " ", ",", "c">>, <<"a", ",", "b", ",", "c", ",", "d">> }

\* editTags(clip): the typed list replaces the stored one, and the
\* component's state is updated at once
EditTags(c, raw, max) ==
  /\ Invoked(max)
  /\ clipsSnap[c].known
  /\ IF Live(c)
     THEN /\ clipDocs' = [clipDocs EXCEPT ![c].tags = EditedTags(raw)]
          /\ clipsSnap' = [clipsSnap EXCEPT ![c].tags = EditedTags(raw)]
     ELSE UNCHANGED <<clipDocs, clipsSnap>>
  /\ UNCHANGED <<playlistDocs, playlistsSnap, replaceTask, deleteTask,
                 rateVars, respVars, tagVars, chatVars>>

\* deleteClip(id)
DeleteClip(c, max) ==
  /\ Invoked(max)
  /\ clipsSnap[c].known
  /\ clipDocs' = IF Live(c) THEN [clipDocs EXCEPT ![c] = DeletedDoc] ELSE clipDocs
  /\ UNCHANGED <<playlistDocs, clipsSnap, playlistsSnap, replaceTask, deleteTask,
                 rateVars, respVars, tagVars, chatVars>>

\* toggleClipPlaylist(clipId, plId, add) for a playlist that the dashboard
\* shows; the variant of part_002 also updates the component's state
ToggleClipPlaylist(c, p, add, max) ==
  LET Changed(ids) == IF add THEN ArrayUnion(ids, p) ELSE ArrayRemove(ids, p)
  IN /\ Invoked(max)
     /\ clipsSnap[c].known
     /\ p \in playlistsSnap
     /\ IF Live(c)
        THEN /\ clipDocs' = [clipDocs EXCEPT ![c].playlistIds = Changed(@)]
             /\ clipsSnap' = [clipsSnap EXCEPT ![c].playlistIds = Changed(@)]
        ELSE UNCHANGED <<clipDocs, clipsSnap>>
     /\ UNCHANGED <<playlistDocs, playlistsSnap, replaceTask, deleteTask,
                    rateVars, respVars, tagVars, chatVars>>

\* the documents of a set of clips as the list a query returns them
InOrder(S) == SelectSeq(ClipOrder, LAMBDA c : c \in S)

\* the clips whose playlistIds hold p
Holding(docs, p) == {c \in LiveClips(docs) : p \in Range(docs[c].playlistIds)}

\* deletePlaylist has returned: from its try block (ok) or from its catch;
\* `left` are the clips that held the playlist when it returned, and `kept`
\* tells that none of its steps changed the set of clip documents
Finished(p, ok, docs, kept) ==
  [pc |-> "done", pl |-> p, ok |-> ok, left |-> Holding(docs, p), kept |-> kept]

\* deletePlaylist(plId), confirmed by the user: the awaited deleteDoc of the
\* playlist document
DeletePlaylist(p, max) ==
  /\ Invoked(max)
  /\ deleteTask.pc \in {"idle", "done"}
  /\ p \in playlistsSnap
  /\ playlistDocs' = playlistDocs \ {p}
  /\ deleteTask' = [pc |-> "getDocs", pl |-> p, kept |-> TRUE]
  /\ UNCHANGED <<clipDocs, clipsSnap, playlistsSnap, replaceTask,
                 rateVars, respVars, tagVars, chatVars>>

\* deletePlaylist: the awaited getDocs of the clips that hold the playlist
DeletePlaylistQuery ==
  LET p == deleteTask.pl
      docs == InOrder(Holding(clipDocs, p))
  IN /\ deleteTask.pc = "getDocs"
     /\ deleteTask' = IF docs = <<>> THEN Finished(p, TRUE, clipDocs, deleteTask.kept)
                      ELSE [pc |-> "updateDoc", pl |-> p, docs |-> docs, kept |-> deleteTask.kept]
     /\ UNCHANGED <<clipDocs, playlistDocs, clipsSnap, playlistsSnap, replaceTask, opCount,
                    rateVars, respVars, tagVars, chatVars>>

\* deletePlaylist: one awaited updateDoc of the loop over the query's
\* documents; on a document that is gone the write is rejected, and the
\* catch block ends the handler
DeletePlaylistUpdate ==
  LET p == deleteTask.pl
      c == Head(deleteTask.docs)
      rest == Tail(deleteTask.docs)
      kept == deleteTask.kept /\ LiveClips(clipDocs') = LiveClips(clipDocs)
  IN /\ deleteTask.pc = "updateDoc"
     /\ clipDocs' = IF Live(c) THEN [clipDocs EXCEPT ![c].playlistIds = ArrayRemove(@, p)]
                    ELSE clipDocs
     /\ deleteTask' = IF ~Live(c) THEN Finished(p, FALSE, clipDocs', kept)
                      ELSE IF rest = <<>> THEN Finished(p, TRUE, clipDocs', kept)
                      ELSE [pc |-> "updateDoc", pl |-> p, docs |-> rest, kept |-> kept]
     /\ UNCHANGED <<playlistDocs, clipsSnap, playlistsSnap, replaceTask, opCount,
                    rateVars, respVars, tagVars, chatVars>>

(***************************************************************************)
(* The dashboard's tag operations.                                         *)
(***************************************************************************)
\* the handlers are invoked at most MaxTagOps times
MaxTagOps == 3

InitClipTags ==
  /\ InitRateIdle
  /\ InitResp
  /\ InitTagsIdle
  /\ InitStore
  /\ InitChatIdle

NextClipTags ==
  \/ ClipsSnapshot
  \/ \E generated \in GeneratedTags : Save(generated, MaxTagOps)
  \/ \E c \in ClipIds, tagValue \in TagInputs : AddTagToClip(c, tagValue, MaxTagOps)
  \/ \E c \in ClipIds : \E tagToRemove \in Range(clipsSnap[c].tags) :
       DeleteTagFromClip(c, tagToRemove, MaxTagOps)
  \/ \E c \in ClipIds, newTagRaw \in TagInputs : \E oldTag \in Range(clipsSnap[c].tags) :
       ReplaceTagOnClip(c, oldTag, newTagRaw, MaxTagOps)
  \/ ReplaceTagUnion
  \/ \E c \in ClipIds, raw \in EditInputs : EditTags(c, raw, MaxTagOps)
  \/ \E c \in ClipIds : DeleteClip(c, MaxTagOps)

SpecClipTags == InitClipTags /\ [][NextClipTags]_vars

\* C9: every stored clip has at most 3 tags, each of them lowercase and
\* trimmed, and no tag twice, whatever save, addTagToClip, deleteTagFromClip,
\* replaceTagOnClip and editTags have done, and however far the component's
\* state lags behind the stored documents.
C9_StoredTagsNormalized ==
  \A c \in LiveClips(clipDocs) :
    LET tags == clipDocs[c].tags
    IN /\ Len(tags) <= 3
       /\ \A k \in 1..Len(tags) : tags[k] = NormalizeTag(tags[k]) /\ tags[k] # <<>>
       /\ \A j, k \in 1..Len(tags) : tags[j] = tags[k] => j = k

\* a clip whose component state lags behind its stored tags has got a tag
C9_Witness ==
  \E c \in LiveClips(clipDocs) :
    /\ clipsSnap[c].known
    /\ Len(clipsSnap[c].tags) < Len(clipDocs[c].tags)
    /\ opCount >= 2

(***************************************************************************)
(* The dashboard's playlist operations.                                    *)
(***************************************************************************)
\* the handlers are invoked at most MaxPlaylistOps times
MaxPlaylistOps == 3

InitPlaylists ==
  /\ InitRateIdle
  /\ InitResp
  /\ InitTagsIdle
  /\ InitStore
  /\ InitChatIdle

NextPlaylists ==
  \/ ClipsSnapshot
  \/ PlaylistsSnapshot
  \/ \E c \in ClipIds, p \in StorePlaylists, add \in BOOLEAN :
       ToggleClipPlaylist(c, p, add, MaxPlaylistOps)
  \/ \E c \in ClipIds : DeleteClip(c, MaxPlaylistOps)
  \/ \E p \in StorePlaylists : DeletePlaylist(p, MaxPlaylistOps)
  \/ DeletePlaylistQuery
  \/ DeletePlaylistUpdate

SpecPlaylists == InitPlaylists /\ [][NextPlaylists]_vars

\* C10: when deletePlaylist(p) has finished, no clip's playlistIds holds p,
\* and deletePlaylist has deleted no clip document.
C10_DeletePlaylistCascades ==
  deleteTask.pc = "done" => (deleteTask.left = {} /\ deleteTask.kept)

\* deletePlaylist has finished for a playlist that two clips were in
C10_Witness ==
  /\ deleteTask.pc = "done"
  /\ deleteTask.pl = "p1"
  /\ deleteTask.left # {}

\* ---------------------------------------------------------------------------
\* Context builders: src/src/ChatAI_HF.jsx (profile context of the chat client)
\* and src/unnamed/part_001 (playlist context of the LLM callable)
\* ---------------------------------------------------------------------------

\* "x".repeat(n)
Repeat(ch, n) == [k \in 1..n |-> ch]

EndsWith(s, suffix) ==
  /\ Len(s) >= Len(suffix)
  /\ SubSeq(s, Len(s) - Len(suffix) + 1, Len(s)) = suffix

StartsWith(s, prefix) ==
  /\ Len(s) >= Len(prefix)
  /\ SubSeq(s, 1, Len(prefix)) = prefix

\* truncate(s, n): s.length > n ? s.slice(0, n - 1) + "…" : s || ""
Truncate(s, n) == IF Len(s) > n THEN SubSeq(s, 1, n - 1) \o <<"<ellipsis>">> ELSE s

\* fmtDate(ts): "unknown" without a timestamp, else the locale's rendering of
\* the date, which is written here as the digits of the timestamp
FmtDate(ts) == IF ts = 0 THEN <<"u", "n", "k", "n", "o", "w", "n">> ELSE NumToStr(ts)

PROFILE_CAP == 18000
PROFILE_KEEP == 17900
PROMPT_CONTEXT_CAP == 16000
TruncatedMark == <<"\n", "<ellipsis>", "(", "t", "r", "u", "n", "c", "a", "t", "e", "d", ")">>
NotLoaded == <<"P", "r", "o", "f", "i", "l", "e", " ", "n", "o", "t", " ", "l", "o", "a", "d", "e", "d", " ", "y", "e", "t", ".">>
NoUser == [uid |-> <<>>, displayName |-> <<>>]

\* Object.entries of a counter object: the keys in insertion order
CountsOf(keys) ==
  LET ks == Dedup(keys)
  IN [k \in 1..Len(ks) |-> [key |-> ks[k], n |-> Count(keys, ks[k])]]

RECURSIVE Concat(_)
Concat(parts) == IF parts = <<>> THEN <<>> ELSE parts[1] \o Concat(Tail(parts))

SampleClipLine(c) ==
  LET title == Truncate(OrElse(c.customTitle, OrElse(c.originalUrl, <<"N", "o", " ", "t", "i", "t", "l", "e">>)), 140)
      desc == Truncate(c.description, 240)
  IN <<"-", " ", "[">> \o c.id \o <<"]", " ", "T", "i", "t", "l", "e", ":", " ">> \o title \o <<";", " ", "D", "a", "t", "e", ":", " ">> \o FmtDate(c.createdAt)
       \o <<";", " ", "P", "l", "a", "y", "l", "i", "s", "t", "s", ":", " ">> \o Join(c.playlistIds, <<",">>) \o <<";", " ", "T", "a", "g", "s", ":", " ">> \o Join(c.tags, <<",">>)
       \o <<";", " ", "U", "R", "L", ":", " ">> \o OrElse(c.watchUrl, c.originalUrl) \o <<"\n">>
       \o (IF desc # <<>> THEN <<" ", " ", "D", "e", "s", "c", ":", " ">> \o desc \o <<"\n">> ELSE <<>>)

\* the text before the length cap is applied
ProfileText(user, library, lists) ==
  LET sites == CountsOf([k \in 1..Len(library) |-> OrElse(library[k].videoSite, <<"u", "n", "k", "n", "o", "w", "n">>)])
      tagCounts == CountsOf(Concat([k \in 1..Len(library) |-> library[k].tags]))
      topTags == Take(SortDesc(tagCounts, [x \in Range(tagCounts) |-> x.n]), 6)
      sampleClips == Take(SortDesc(library, [x \in Range(library) |-> x.createdAt]), 12)
  IN <<"U", "s", "e", "r", ":", " ">> \o OrElse(user.displayName, user.uid) \o <<"\n">>
       \o <<"T", "o", "t", "a", "l", "C", "l", "i", "p", "s", ":", " ">> \o NumToStr(Len(library)) \o <<";", " ", "P", "l", "a", "y", "l", "i", "s", "t", "s", ":", " ">> \o NumToStr(Len(lists)) \o <<";", "\n">>
       \o <<"B", "y", "S", "i", "t", "e", ":", " ">>
       \o OrElse(Join([k \in 1..Len(sites) |-> sites[k].key \o <<":">> \o NumToStr(sites[k].n)], <<",", " ">>), <<"n", "o", "n", "e">>)
       \o <<"\n">>
       \o <<"T", "o", "p", "T", "a", "g", "s", ":", " ">>
       \o OrElse(Join([k \in 1..Len(topTags) |-> topTags[k].key \o <<"(">> \o NumToStr(topTags[k].n) \o <<")">>], <<",", " ">>), <<"n", "o", "n", "e">>)
       \o <<"\n">>
       \o <<"P", "l", "a", "y", "l", "i", "s", "t", "s", ":", " ">>
       \o OrElse(Join(Take([k \in 1..Len(lists) |-> lists[k].name], 20), <<" ", "|", " ">>), <<"n", "o", "n", "e">>)
       \o <<"\n">>
       \o <<"S", "a", "m", "p", "l", "e", "C", "l", "i", "p", "s", ":", "\n">>
       \o Concat([k \in 1..Len(sampleClips) |-> SampleClipLine(sampleClips[k])])

BuildProfileContext(user, library, lists) ==
  IF user = NoUser THEN <<"N", "o", " ", "u", "s", "e", "r", " ", "l", "o", "g", "g", "e", "d", " ", "i", "n", ".">>
  ELSE LET out == ProfileText(user, library, lists)
       IN IF Len(out) > PROFILE_CAP THEN SubSeq(out, 1, PROFILE_KEEP) \o TruncatedMark ELSE out

\* callProxy: the prompt posted to the proxy
PromptHead == <<"C", "o", "n", "t", "e", "x", "t", ":", "\n">>
PromptTail(prompt) == <<"\n", "\n", "U", "s", "e", "r", "Q", "u", "e", "s", "t", "i", "o", "n", ":", "\n">> \o prompt \o <<"\n", "\n", "A", "s", "s", "i", "s", "t", "a", "n", "t", ":">>
FullPrompt(context, prompt) ==
  PromptHead \o Truncate(context, PROMPT_CONTEXT_CAP) \o PromptTail(prompt)

\* buildPlaylistContext(uid, playlistId) of the LLM callable, over a store
\* [lists, library, fails]: the playlist document, then its 12 newest clips
PlaylistNameOf(lists, pid) ==
  LET hit == SelectSeq(lists, LAMBDA p : p.id = pid)
  IN IF hit = <<>> THEN <<>> ELSE hit[1].name

MutPlaylistContextUnguarded(store, uid, pid) ==
  IF uid = <<>> \/ pid = <<>> THEN <<>>
  ELSE <<"P", "l", "a", "y", "l", "i", "s", "t", ":", " ">> \o PlaylistNameOf(store.lists, pid) \o <<"\n", "\n", "\n">>
BuildPlaylistContext(store, uid, pid) ==
  IF uid = <<>> \/ pid = <<>> THEN <<>>
  ELSE IF store.fails THEN <<>>
  ELSE LET name == PlaylistNameOf(store.lists, pid)
           inList == SelectSeq(store.library, LAMBDA c : \E k \in 1..Len(c.playlistIds) : c.playlistIds[k] = pid)
           newest == Take(SortDesc(inList, [x \in Range(inList) |-> x.createdAt]), 12)
           lines == [k \in 1..Len(newest) |->
                      NumToStr(k) \o <<".", " ">> \o OrElse(newest[k].customTitle, newest[k].originalUrl)
                        \o <<" ", "<emdash>", " ">> \o Slice(newest[k].description, 0, 80)]
       IN IF lines = <<>> THEN <<"P", "l", "a", "y", "l", "i", "s", "t", ":", " ">> \o name \o <<"\n", "(", "n", "o", " ", "c", "l", "i", "p", "s", ")", "\n", "\n">>
          ELSE <<"P", "l", "a", "y", "l", "i", "s", "t", ":", " ">> \o name \o <<"\n">> \o Join(lines, <<"\n">>) \o <<"\n", "\n">>

\* the clips and playlists of the context builders' library
LongUrl == <<"h", "t", "t", "p", "s", ":", "/", "/", "v", "i", "d", "e", "o", ".", "e", "x", "a", "m", "p", "l", "e", "/", "w", "a", "t", "c", "h", "?", "v", "=">> \o Repeat("u", 120)
ProfileClipA ==
  [id |-> <<"c", "1">>, customTitle |-> <<"P", "y", "t", "h", "o", "n", " ", "b", "a", "s", "i", "c", "s">>, originalUrl |-> <<"h", "t", "t", "p", "s", ":", "/", "/", "y", ".", "t", "u", "b", "e", "/", "a">>,
   watchUrl |-> <<"h", "t", "t", "p", "s", ":", "/", "/", "y", ".", "t", "u", "b", "e", "/", "w", "a", "t", "c", "h", "/", "a">>, videoSite |-> <<"y", "o", "u", "t", "u", "b", "e">>, createdAt |-> 30,
   playlistIds |-> <<<<"p", "1">>>>, tags |-> <<<<"p", "y", "t", "h", "o", "n">>, <<"b", "a", "s", "i", "c", "s">>>>, description |-> <<"I", "n", "t", "r", "o">>]
ProfileClipB ==
  [id |-> <<"c", "2">>, customTitle |-> <<>>, originalUrl |-> LongUrl,
   watchUrl |-> <<>>, videoSite |-> <<>>, createdAt |-> 0,
   playlistIds |-> <<<<"p", "1">>, <<"p", "2">>>>, tags |-> <<<<"p", "y", "t", "h", "o", "n">>>>, description |-> Repeat("d", 250)]
ProfileLibraries == {<<>>, <<ProfileClipA>>, <<ProfileClipB, ProfileClipA>>}

\* lengths of the one free-length field, chosen so that the text lands one
\* below, on and one above each cap
MaxName == 18001
NearCaps(base) ==
  {n \in {c - base + d : c \in {PROMPT_CONTEXT_CAP, PROFILE_CAP}, d \in {-1, 0, 1}} : n >= 0 /\ n <= MaxName}

ContextStores ==
  UNION {
    UNION {
      LET shortLists == IF named THEN <<[id |-> <<"p", "1">>, name |-> <<"C", "o", "u", "r", "s", "e">>]>> ELSE <<>>
          baseProfile == Len(ProfileText([uid |-> <<"u", "1">>, displayName |-> <<"n">>], library, shortLists)) - 1
          basePlaylist == Len(BuildPlaylistContext([lists |-> <<[id |-> <<"p", "1">>, name |-> <<>>]>>, library |-> library, fails |-> FALSE], <<"u", "1">>, <<"p", "1">>))
      IN {[user |-> [uid |-> <<"u", "1">>, displayName |-> Repeat("n", n)], library |-> library,
           lists |-> shortLists, fails |-> FALSE] : n \in {0, 4} \cup NearCaps(baseProfile)}
         \cup {[user |-> [uid |-> <<"u", "1">>, displayName |-> <<"A", "n", "n">>], library |-> library,
                lists |-> <<[id |-> <<"p", "1">>, name |-> Repeat("p", n)]>>, fails |-> fails]
                 : n \in {MaxName} \cup NearCaps(basePlaylist), fails \in BOOLEAN}
      : named \in BOOLEAN}
    : library \in ProfileLibraries}
    \cup {[user |-> NoUser, library |-> <<>>, lists |-> <<>>, fails |-> FALSE]}

ContextPlaylistIds == {<<>>, <<"p", "1">>}

InitContext ==
  /\ InitRateIdle
  /\ InitTagsIdle
  /\ InitStoreIdle
  /\ request \in {[store |-> st, pid |-> pid, question |-> <<"h", "i">>] : st \in ContextStores, pid \in ContextPlaylistIds}
  /\ response = NoResponse
  /\ profileContext = NotLoaded
  /\ invocation = NoTask
  /\ netLog = <<>>
  /\ storeLog = <<>>
  /\ results = <<>>

\* the effect that rebuilds the profile context when clips, playlists or
\* the user change
RebuildProfileContext ==
  /\ invocation.pc = "idle"
  /\ profileContext' = BuildProfileContext(request.store.user, request.store.library, request.store.lists)
  /\ invocation' = [pc |-> "loaded"]
  /\ UNCHANGED <<rateVars, respVars, tagVars, storeVars, netLog, storeLog, results>>

\* callProxy up to its fetch: the prompt goes out with the context in front
CallProxyPost ==
  /\ invocation.pc \in {"idle", "loaded"}
  /\ netLog' = Append(netLog, [to |-> "hf-chat", prompt |-> FullPrompt(profileContext, request.question)])
  /\ invocation' = [pc |-> "posted"]
  /\ UNCHANGED <<rateVars, respVars, tagVars, storeVars, profileContext, storeLog, results>>

\* the LLM callable building its playlist context for the same library
PlaylistContextBuilt ==
  /\ response = NoResponse
  /\ response' = [by |-> "buildPlaylistContext",
                  context |-> BuildPlaylistContext(request.store, request.store.user.uid, request.pid)]
  /\ UNCHANGED <<rateVars, request, tagVars, storeVars, chatVars>>

NextContext == RebuildProfileContext \/ CallProxyPost \/ PlaylistContextBuilt

SpecContext == InitContext /\ [][NextContext]_vars

\* the context carried by a posted prompt
ContextInPrompt(prompt, question) ==
  SubSeq(prompt, Len(PromptHead) + 1, Len(prompt) - Len(PromptTail(question)))

ProfileCapped ==
  profileContext # NotLoaded =>
    /\ Len(profileContext) <= PROFILE_CAP
    /\ LET out == ProfileText(request.store.user, request.store.library, request.store.lists)
       IN request.store.user # NoUser /\ Len(out) > PROFILE_CAP => EndsWith(profileContext, TruncatedMark)

PromptContextCapped ==
  \A k \in 1..Len(netLog) :
    LET ctx == ContextInPrompt(netLog[k].prompt, request.question)
    IN /\ Len(ctx) <= PROMPT_CONTEXT_CAP
       /\ Len(profileContext) > PROMPT_CONTEXT_CAP => EndsWith(ctx, <<"<ellipsis>">>)

PlaylistContextCapped ==
  response.by = "buildPlaylistContext" => Len(response.context) <= PROFILE_CAP

\* C11: whatever the library of clips and playlists, a context string never
\* exceeds its cap (18,000 characters out of a context builder, 16,000
\* characters inside the prompt) and a truncated one ends with the
\* truncation marker.
C11_ContextCapped == ProfileCapped /\ PromptContextCapped /\ PlaylistContextCapped

\* the playlist context of the LLM callable has been built longer than the cap
C11_Witness ==
  /\ response.by = "buildPlaylistContext"
  /\ Len(response.context) > PROFILE_CAP

\* ---------------------------------------------------------------------------
\* The callables as invocations: src/unnamed/part_001 (LLM-backed hfChat) and
\* src/Backup/functions/hfChat.js (rule-based hfChat), from the rate limiter
\* to the returned object, with the reads, writes and outbound requests
\* they issue
\* ---------------------------------------------------------------------------

\* data.message as it arrives: absent, a string, or an object whose toString
\* property is no function, which no conversion to a string accepts
MissingMessage == [kind |-> "missing", text |-> <<>>]
StringMessage(text) == [kind |-> "string", text |-> text]
ObjectMessage == [kind |-> "object", text |-> <<>>]
MessageInputs ==
  {MissingMessage, ObjectMessage}
    \cup {StringMessage(t) : t \in {<<>>, <<" ", "\n">>, <<"h", "i">>, <<"s", "u", "m", "m", "a", "r", "i", "z", "e", " ", "p", "l", "a", "y", "l", "i", "s", "t">>, <<"p", "a", "n", "d", "a", "s">>}}

\* (data?.message || "").toString() and String(data.message): the text, or
\* the TypeError of the conversion
ConvertMessage(m) ==
  IF m.kind = "object" THEN [thrown |-> "TypeError"] ELSE [text |-> m.text]

UidText(uid) == IF uid = "anonymous" THEN <<"a", "n", "o", "n", "y", "m", "o", "u", "s">> ELSE <<"u", "1">>

SystemNote == <<"Y", "o", "u", " ", "a", "r", "e", " ", "C", "l", "i", "p", "B", "o", "o", "k", " ", "A", "I", " ", "A", "s", "s", "i", "s", "t", "a", "n", "t", ".", " ", "U", "s", "e", " ", "t", "h", "e", " ", "p", "l", "a", "y", "l", "i", "s", "t", " ", "c", "o", "n", "t", "e", "x", "t", " ", "w", "h", "e", "n", " ", "p", "r", "o", "v", "i", "d", "e", "d", ".", " ", "B", "e", " ", "c", "o", "n", "c", "i", "s", "e", ",", " ", "h", "e", "l", "p", "f", "u", "l", ",", " ", "a", "n", "d", " ", "r", "e", "f", "e", "r", "e", "n", "c", "e", " ", "v", "i", "d", "e", "o", " ", "t", "i", "t", "l", "e", "s", " ", "w", "h", "e", "n", " ", "r", "e", "l", "e", "v", "a", "n", "t", ".">>
LlmPrompt(playlistContext, message) ==
  SystemNote \o <<"\n", "\n">> \o playlistContext \o <<"U", "s", "e", "r", ":", " ">> \o message \o <<"\n", "A", "s", "s", "i", "s", "t", "a", "n", "t", ":">>

ModelFailed(status) == [error |-> <<"M", "o", "d", "e", "l", " ", "r", "e", "q", "u", "e", "s", "t", " ", "f", "a", "i", "l", "e", "d", " ", "(">> \o NumToStr(status) \o <<")">>]
ServerErrorLlm == [error |-> <<"S", "e", "r", "v", "e", "r", " ", "e", "r", "r", "o", "r", " ", "c", "a", "l", "l", "i", "n", "g", " ", "H", "u", "g", "g", "i", "n", "g", " ", "F", "a", "c", "e", ".", " ", "S", "e", "e", " ", "l", "o", "g", "s", ".">>]

\* what the upstream model does with a request: the connection fails, it
\* answers with a status outside 2xx, or with 2xx and a body that is or is
\* not JSON
REPLY_CAP == 4000
JsonBodies ==
  {[shape |-> "array", text |-> <<"H", "e", "l", "l", "o">>, raw |-> <<"[", "{", "\"", "g", "e", "n", "e", "r", "a", "t", "e", "d", "_", "t", "e", "x", "t", "\"", ":", "\"", "H", "e", "l", "l", "o", "\"", "}", "]">>],
   [shape |-> "array", text |-> <<>>, raw |-> <<"[", "{", "\"", "g", "e", "n", "e", "r", "a", "t", "e", "d", "_", "t", "e", "x", "t", "\"", ":", "\"", "\"", "}", "]">>],
   [shape |-> "object", text |-> <<"H", "i">>, raw |-> <<"{", "\"", "g", "e", "n", "e", "r", "a", "t", "e", "d", "_", "t", "e", "x", "t", "\"", ":", "\"", "H", "i", "\"", "}">>],
   [shape |-> "data", text |-> <<"H", "e", "y">>, raw |-> <<"{", "\"", "d", "a", "t", "a", "\"", ":", "[", "{", "\"", "g", "e", "n", "e", "r", "a", "t", "e", "d", "_", "t", "e", "x", "t", "\"", ":", "\"", "H", "e", "y", "\"", "}", "]", "}">>],
   [shape |-> "string", text |-> <<"Y", "o">>, raw |-> <<"\"", "Y", "o", "\"">>],
   [shape |-> "other", text |-> <<>>, raw |-> <<"{", "\"", "e", "r", "r", "o", "r", "\"", ":", "\"", "l", "o", "a", "d", "i", "n", "g", "\"", "}">>],
   [shape |-> "other", text |-> <<>>, raw |-> <<"{", "\"", "x", "\"", ":", "\"">> \o Repeat("j", REPLY_CAP) \o <<"\"", "}">>]}
Upstreams ==
  {[kind |-> "network", status |-> 0, json |-> Null], [kind |-> "badjson", status |-> 200, json |-> Null]}
    \cup {[kind |-> "status", status |-> s, json |-> Null] : s \in {429, 503}}
    \cup {[kind |-> "json", status |-> 200, json |-> j] : j \in JsonBodies}

\* the reply read off the shapes a model answers in
ExtractReply(json) ==
  IF json.shape \in {"array", "object", "data"} /\ json.text # <<>> THEN json.text
  ELSE IF json.shape = "string" THEN json.text
  ELSE Take(json.raw, REPLY_CAP)

\* the caller's bucket at the instance that serves the call
FullBucket(v) == [k \in 1..MAX_REQ(v) |-> 0]

LlmStores ==
  {[lists |-> IF named THEN <<[id |-> <<"p", "1">>, name |-> <<"C", "o", "u", "r", "s", "e">>]>> ELSE <<>>,
    library |-> library, fails |-> fails]
     : named \in BOOLEAN, library \in ProfileLibraries, fails \in BOOLEAN}
LlmRequests ==
  {[variant |-> "llm", auth |-> a, data |-> [message |-> m, playlistId |-> pid], store |-> st]
     : a \in Callers, m \in MessageInputs, pid \in {<<>>, <<"p", "1">>, <<"p", "9">>}, st \in LlmStores}
RuleRequests ==
  {[variant |-> "rule", auth |-> sc.auth, data |-> [message |-> m, playlistId |-> sc.pid], sc |-> sc]
     : m \in MessageInputs, sc \in {s \in Scenarios : Len(s.library) \in {0, 3}}}


\* POST /hf-chat of the HTTP variant (src/functions/clipbot/index.js): the
\* body's prompt is absent, no string, or a string; GROQ_KEY is set or not
PromptInputs ==
  {[kind |-> "missing", text |-> <<>>], [kind |-> "number", text |-> <<>>]}
    \cup {[kind |-> "string", text |-> t] : t \in {<<>>, <<"h", "i">>, <<"r", "e", "c", "o", "m", "m", "e", "n", "d", " ", "n", "e", "x", "t">>}}
HttpRequests ==
  {[variant |-> "http", auth |-> NoAuth, data |-> [prompt |-> p], keySet |-> k]
     : p \in PromptInputs, k \in BOOLEAN}

\* what the upstream chat API does: as Upstreams, and an answer outside 2xx
\* carries a JSON body or some other body
ChatBodies ==
  {[content |-> <<"W", "a", "t", "c", "h", " ", "t", "h", "e", " ", "p", "a", "n", "d", "a", "s", " ", "c", "l", "i", "p", ".">>, raw |-> <<"{", "\"", "c", "h", "o", "i", "c", "e", "s", "\"", ":", "[", "{", "\"", "m", "e", "s", "s", "a", "g", "e", "\"", ":", "{", "\"", "c", "o", "n", "t", "e", "n", "t", "\"", ":", "\"", "W", "a", "t", "c", "h", " ", "t", "h", "e", " ", "p", "a", "n", "d", "a", "s", " ", "c", "l", "i", "p", ".", "\"", "}", "}", "]", "}">>],
   [content |-> Null, raw |-> <<"{", "\"", "c", "h", "o", "i", "c", "e", "s", "\"", ":", "[", "]", "}">>]}
ErrorBodies ==
  {[parses |-> TRUE, raw |-> <<"{", "\"", "e", "r", "r", "o", "r", "\"", ":", "{", "\"", "m", "e", "s", "s", "a", "g", "e", "\"", ":", "\"", "R", "a", "t", "e", " ", "l", "i", "m", "i", "t", " ", "r", "e", "a", "c", "h", "e", "d", "\"", "}", "}">>],
   [parses |-> FALSE, raw |-> <<"<", "h", "t", "m", "l", ">", "5", "0", "3", " ", "S", "e", "r", "v", "i", "c", "e", " ", "U", "n", "a", "v", "a", "i", "l", "a", "b", "l", "e", "<", "/", "h", "t", "m", "l", ">">>]}
HttpUpstreams ==
  {[kind |-> "network", status |-> 0, body |-> Null], [kind |-> "badjson", status |-> 200, body |-> Null]}
    \cup {[kind |-> "status", status |-> st, body |-> b] : st \in {429, 503}, b \in ErrorBodies}
    \cup {[kind |-> "json", status |-> 200, body |-> b] : b \in ChatBodies}

BadPrompt == [status |-> 400, body |-> [error |-> <<"p", "r", "o", "m", "p", "t", " ", "m", "u", "s", "t", " ", "b", "e", " ", "a", " ", "s", "t", "r", "i", "n", "g">>]]
KeyMissing == [status |-> 500, body |-> [error |-> <<"G", "R", "O", "Q", "_", "K", "E", "Y", " ", "i", "s", " ", "n", "o", "t", " ", "s", "e", "t", " ", "i", "n", " ", "e", "n", "v", "i", "r", "o", "n", "m", "e", "n", "t", " ", "v", "a", "r", "i", "a", "b", "l", "e", "s">>]]
\* the catch: status 500 with the message of the exception
Caught(message) == [status |-> 500, body |-> [error |-> message]]
UpstreamFailed(details) == [status |-> 502, body |-> [error |-> <<"G", "r", "o", "q", " ", "A", "P", "I", " ", "f", "a", "i", "l", "e", "d">>, details |-> details]]
Answered200(answer) ==
  [status |-> 200, body |-> [ok |-> TRUE, provider |-> <<"g", "r", "o", "q">>, model |-> <<"l", "l", "a", "m", "a", "-", "3", ".", "1", "-", "8", "b", "-", "i", "n", "s", "t", "a", "n", "t">>, result |-> answer]]

InitCallable ==
  /\ InitTagsIdle
  /\ InitStoreIdle
  /\ \/ request \in LlmRequests
     \/ request \in RuleRequests
     \/ request \in HttpRequests
  /\ response = NoResponse
  /\ now = 0
  /\ variant = request.variant
  \* the HTTP variant has no rate limiter
  /\ maxReq = IF variant = "http" THEN 0 ELSE MAX_REQ(variant)
  /\ \E full \in (IF variant = "http" THEN {FALSE} ELSE BOOLEAN) :
       LET held == [i \in Instances |-> [u \in Uids |->
                     IF full /\ i = "i1" /\ u = UidOf(request.auth) THEN FullBucket(variant) ELSE <<>>]]
       IN buckets = held /\ accepted = held
  /\ last = Idle
  /\ profileContext = <<>>
  /\ invocation = NoTask
  /\ netLog = <<>>
  /\ storeLog = <<>>
  /\ results = <<>>

\* a handler that converts and validates the message before it asks the
\* rate limiter
MutInvokeValidatesFirst ==
  LET uid == UidOf(request.auth)
      arr == BucketOf("i1", uid)
      message == ConvertMessage(request.data.message)
      valid == "text" \in DOMAIN message /\ ~IsEmptyMessage(message.text)
      ok == valid /\ WithinLimitOk(arr, now, maxReq)
  IN /\ variant \in {"rule", "llm"}
     /\ invocation.pc = "idle"
     /\ buckets' = [buckets EXCEPT !["i1"][uid] = IF valid THEN WithinLimitBucket(arr, now, maxReq) ELSE arr]
     /\ accepted' = [accepted EXCEPT !["i1"][uid] = IF ok THEN Append(@, now) ELSE @]
     /\ IF "thrown" \in DOMAIN message
        THEN /\ results' = Append(results, message)
             /\ invocation' = [pc |-> "done", at |-> "convert"]
        ELSE IF IsEmptyMessage(message.text)
        THEN /\ results' = Append(results, [returned |-> EmptyMessageError])
             /\ invocation' = [pc |-> "done", at |-> "validate"]
        ELSE IF ~ok
        THEN /\ results' = Append(results, [returned |-> RateLimitError(variant)])
             /\ invocation' = [pc |-> "done", at |-> "limit"]
        ELSE /\ results' = results
             /\ invocation' = [pc |-> "context", message |-> message.text]
     /\ UNCHANGED <<now, variant, maxReq, last, respVars, tagVars, storeVars, profileContext, netLog, storeLog>>

\* hfChat up to its first await: the rate limiter, the conversion of the
\* message and its validation (lines 65-71 of part_001, 130-136 of hfChat.js)
Invoke ==
  LET uid == UidOf(request.auth)
      arr == BucketOf("i1", uid)
      ok == WithinLimitOk(arr, now, maxReq)
      message == ConvertMessage(request.data.message)
  IN /\ variant \in {"rule", "llm"}
     /\ invocation.pc = "idle"
     /\ buckets' = [buckets EXCEPT !["i1"][uid] = WithinLimitBucket(arr, now, maxReq)]
     /\ accepted' = [accepted EXCEPT !["i1"][uid] = IF ok THEN Append(@, now) ELSE @]
     /\ IF ~ok
        THEN /\ results' = Append(results, [returned |-> RateLimitError(variant)])
             /\ invocation' = [pc |-> "done", at |-> "limit"]
        ELSE IF "thrown" \in DOMAIN message
        THEN /\ results' = Append(results, message)
             /\ invocation' = [pc |-> "done", at |-> "convert"]
        ELSE IF IsEmptyMessage(message.text)
        THEN /\ results' = Append(results, [returned |-> EmptyMessageError])
             /\ invocation' = [pc |-> "done", at |-> "validate"]
        ELSE /\ results' = results
             /\ invocation' = [pc |-> "context", message |-> message.text]
     /\ UNCHANGED <<now, variant, maxReq, last, respVars, tagVars, storeVars, profileContext, netLog, storeLog>>

\* the reads of buildPlaylistContext: the playlist document, then the clips
\* query; a failing store fails the first or the second of them
ContextReads(store, pid) ==
  IF pid = <<>> THEN {<<>>}
  ELSE IF store.fails
  THEN {<<[op |-> "get", what |-> "playlist", ok |-> FALSE]>>,
        <<[op |-> "get", what |-> "playlist", ok |-> TRUE], [op |-> "get", what |-> "clips", ok |-> FALSE]>>}
  ELSE {<<[op |-> "get", what |-> "playlist", ok |-> TRUE], [op |-> "get", what |-> "clips", ok |-> TRUE]>>}

\* part_001 line 74: await buildPlaylistContext(uid, playlistId)
LlmBuildContext ==
  /\ variant = "llm"
  /\ invocation.pc = "context"
  /\ \E reads \in ContextReads(request.store, request.data.playlistId) :
       storeLog' = storeLog \o reads
  /\ invocation' = [invocation EXCEPT !.pc = "fetch"]
                     @@ [playlistContext |-> BuildPlaylistContext(request.store, UidText(UidOf(request.auth)),
                                                                  request.data.playlistId)]
  /\ UNCHANGED <<rateVars, respVars, tagVars, storeVars, profileContext, netLog, results>>

\* part_001 lines 100-144: what the handler returns for an answer of the
\* model, and whether the conversation is written; readable says whether
\* response.text() delivers the body of an answer outside 2xx or throws
MutLlmOutcomeSavesAlways(up, readable) ==
  CASE up.kind = "status" -> [returned |-> ModelFailed(up.status), save |-> TRUE]
    [] up.kind = "json" -> [returned |-> [reply |-> ExtractReply(up.json)], save |-> TRUE]
    [] OTHER -> [returned |-> ServerErrorLlm, save |-> TRUE]
LlmOutcome(up, readable) ==
  CASE up.kind = "status" ->
         [returned |-> IF readable THEN ModelFailed(up.status) ELSE ServerErrorLlm, save |-> FALSE]
    [] up.kind = "json" -> [returned |-> [reply |-> ExtractReply(up.json)], save |-> TRUE]
    [] OTHER -> [returned |-> ServerErrorLlm, save |-> FALSE]

\* part_001 lines 79-145: the one request to the model, its answer, the
\* write of the conversation that is started and not awaited, and the
\* returned object
LlmFetch ==
  /\ variant = "llm"
  /\ invocation.pc = "fetch"
  /\ netLog' = Append(netLog, [to |-> "router", prompt |-> LlmPrompt(invocation.playlistContext, invocation.message)])
  /\ \E up \in Upstreams, readable \in BOOLEAN :
       LET outcome == LlmOutcome(up, readable)
       IN /\ results' = Append(results, [returned |-> outcome.returned])
          /\ storeLog' = IF outcome.save
                         THEN Append(storeLog, [op |-> "add", what |-> "conversations", ok |-> Null])
                         ELSE storeLog
          /\ invocation' = [invocation EXCEPT !.pc = IF outcome.save THEN "saving" ELSE "done"]
                             @@ [upstream |-> up]
  /\ UNCHANGED <<rateVars, respVars, tagVars, storeVars, profileContext>>

\* part_001 lines 128-139: the write settles after the return; its failure
\* is logged and nothing else
LlmSaveSettles ==
  /\ variant = "llm"
  /\ invocation.pc = "saving"
  /\ \E ok \in BOOLEAN : storeLog' = [storeLog EXCEPT ![Len(storeLog)].ok = ok]
  /\ invocation' = [invocation EXCEPT !.pc = "done"]
  /\ UNCHANGED <<rateVars, respVars, tagVars, storeVars, profileContext, netLog, results>>

\* hfChat.js lines 139-191: the clips of the playlist are read when one is
\* given, and the responders answer
RuleAnswer ==
  /\ variant = "rule"
  /\ invocation.pc = "context"
  /\ storeLog' = IF request.data.playlistId = Null THEN storeLog
                 ELSE Append(storeLog, [op |-> "get", what |-> "clips", ok |-> ~request.sc.fails])
  /\ results' = Append(results,
                  [returned |-> HfChatRule([message |-> invocation.message, playlistId |-> request.data.playlistId],
                                           request.sc).result])
  /\ invocation' = [invocation EXCEPT !.pc = "done"]
  /\ UNCHANGED <<rateVars, respVars, tagVars, storeVars, profileContext, netLog>>

\* index.js lines 29-36: the checks before anything is sent
HttpPost ==
  LET prompt == request.data.prompt
  IN /\ variant = "http"
     /\ invocation.pc = "idle"
     /\ IF prompt.kind # "string" \/ prompt.text = <<>>
        THEN /\ results' = Append(results, BadPrompt)
             /\ invocation' = [pc |-> "done", at |-> "validate"]
        ELSE IF ~request.keySet
        THEN /\ results' = Append(results, KeyMissing)
             /\ invocation' = [pc |-> "done", at |-> "key"]
        ELSE /\ results' = results
             /\ invocation' = [pc |-> "fetch", prompt |-> prompt.text]
     /\ UNCHANGED <<rateVars, respVars, tagVars, storeVars, profileContext, netLog, storeLog>>

\* index.js lines 48-76: the request to the chat API; the body of the answer
\* is parsed as JSON before its status is looked at
HttpFetch ==
  /\ variant = "http"
  /\ invocation.pc = "fetch"
  /\ netLog' = Append(netLog, [to |-> "groq", prompt |-> invocation.prompt])
  /\ \E up \in HttpUpstreams :
       /\ invocation' = [invocation EXCEPT !.pc = "done"] @@ [upstream |-> up]
       /\ results' = Append(results,
            CASE up.kind = "network" -> Caught(<<"r", "e", "q", "u", "e", "s", "t", " ", "t", "o", " ", "h", "t", "t", "p", "s", ":", "/", "/", "a", "p", "i", ".", "g", "r", "o", "q", ".", "c", "o", "m", " ", "f", "a", "i", "l", "e", "d">>)
              [] up.kind = "badjson" -> Caught(<<"i", "n", "v", "a", "l", "i", "d", " ", "j", "s", "o", "n", " ", "r", "e", "s", "p", "o", "n", "s", "e", " ", "b", "o", "d", "y">>)
              [] up.kind = "status" ->
                   IF up.body.parses THEN UpstreamFailed(up.body.raw)
                   ELSE Caught(<<"i", "n", "v", "a", "l", "i", "d", " ", "j", "s", "o", "n", " ", "r", "e", "s", "p", "o", "n", "s", "e", " ", "b", "o", "d", "y">>)
              [] OTHER -> Answered200(IF up.body.content = Null THEN <<"N", "o", " ", "r", "e", "s", "p", "o", "n", "s", "e">> ELSE up.body.content))
  /\ UNCHANGED <<rateVars, respVars, tagVars, storeVars, profileContext, storeLog>>

NextCallable ==
  \/ Invoke \/ LlmBuildContext \/ LlmFetch \/ LlmSaveSettles \/ RuleAnswer
  \/ HttpPost \/ HttpFetch

SpecCallable == InitCallable /\ [][NextCallable]_vars

\* the playlist context of an LLM invocation has been built
ContextBuilt == variant = "llm" /\ "playlistContext" \in DOMAIN invocation

HasClipsIn(store, pid) ==
  \E k \in 1..Len(store.library) :
    \E j \in 1..Len(store.library[k].playlistIds) : store.library[k].playlistIds[j] = pid

\* C12: the playlist context degrades without failing the request: no
\* playlist id gives the empty context without a read, a playlist without
\* clips gives a context containing "(no clips)", a failing read gives the
\* empty context, and the request goes on to the model call with that
\* context; the rule-based variant answers with a reply when its read fails.
C12_ContextDegrades ==
  /\ ContextBuilt =>
       LET pid == request.data.playlistId
           ctx == invocation.playlistContext
       IN /\ pid = <<>> => (ctx = <<>> /\ \A k \in 1..Len(storeLog) : storeLog[k].op # "get")
          /\ (pid # <<>> /\ request.store.fails) => ctx = <<>>
          /\ (pid # <<>> /\ ~request.store.fails /\ ~HasClipsIn(request.store, pid))
               => Includes(ctx, <<"(", "n", "o", " ", "c", "l", "i", "p", "s", ")">>)
          /\ invocation.pc \in {"saving", "done"} =>
               /\ Len(netLog) = 1
               /\ netLog[1].prompt = LlmPrompt(ctx, invocation.message)
  /\ (variant = "rule" /\ invocation.pc = "done" /\ "message" \in DOMAIN invocation)
       => "reply" \in DOMAIN results[1].returned

\* a read of the store failed under the context builder and the model has
\* been called
C12_Witness ==
  /\ ContextBuilt
  /\ request.data.playlistId # <<>>
  /\ request.store.fails
  /\ \E k \in 1..Len(storeLog) : storeLog[k].op = "get" /\ storeLog[k].ok = FALSE
  /\ invocation.playlistContext = <<>>
  /\ Len(netLog) = 1

\* the invocation has ended: its object is returned, or it has thrown
Ended == invocation.pc \in {"saving", "done"}

OneResult ==
  /\ Len(results) = 1
  /\ "returned" \in DOMAIN results[1]
  /\ DOMAIN results[1].returned \in {{"reply"}, {"error"}}

\* C13: no error escapes the hfChat callable, rule-based or LLM-backed:
\* whatever the input and whatever fails in the document store or at the
\* upstream model, the handler returns exactly one of {reply} and {error}
\* and never throws.
C13_NoErrorEscapes ==
  variant \in {"rule", "llm"} => (Len(results) <= 1 /\ (Ended => OneResult))

\* the same for the calls whose message is absent or a string
NoErrorEscapesStrings ==
  (variant \in {"rule", "llm"} /\ request.data.message.kind # "object") => (Len(results) <= 1 /\ (Ended => OneResult))

\* a call has ended by throwing
C13_Witness ==
  /\ variant \in {"rule", "llm"}
  /\ Ended
  /\ Len(results) = 1
  /\ "thrown" \in DOMAIN results[1]

\* the answer of the upstream model the invocation has received
Received(kind) == "upstream" \in DOMAIN invocation /\ invocation.upstream.kind = kind

ErrorResult(r) ==
  IF "returned" \in DOMAIN r THEN DOMAIN r.returned = {"error"}
  ELSE "status" \in DOMAIN r /\ "error" \in DOMAIN r.body

\* C14: an upstream failure is never retried: an invocation issues at most
\* one outbound request to the model, and once the model has answered
\* outside 2xx the invocation has ended with an {error} result and no
\* conversation record is written, then or later.
C14_NoRetry ==
  /\ Len(netLog) <= 1
  /\ Received("status") =>
       /\ invocation.pc = "done"
       /\ Len(results) = 1
       /\ ErrorResult(results[1])
       /\ \A k \in 1..Len(storeLog) : storeLog[k].op # "add"

\* the LLM-backed callable has ended on an answer outside 2xx
C14_Witness ==
  /\ variant = "llm"
  /\ Received("status")
  /\ invocation.pc = "done"
  /\ Len(netLog) = 1

\* the call's message is absent, empty or only white space
BlankMessage ==
  /\ variant \in {"rule", "llm"}
  /\ request.data.message.kind # "object"
  /\ Len(Trim(request.data.message.text)) = 0

\* the check at which the handler returned before its first await
EndedAt(check) == "at" \in DOMAIN invocation /\ invocation.at = check

NothingReadOrSent == storeLog = <<>> /\ netLog = <<>>

\* the statement as claimed: every call with a blank message is answered
\* with {error: "Empty message"}
C20_BlankAlwaysEmptyMessage ==
  (BlankMessage /\ Ended) =>
    /\ results = <<[returned |-> EmptyMessageError]>>
    /\ NothingReadOrSent

\* C20: an hfChat call with a missing, empty or whitespace-only message that
\* the rate limiter lets through is answered with the returned value
\* {error: "Empty message"}; one the rate limiter rejects is answered with
\* the rate-limit {error}; in both cases nothing is thrown, the document
\* store is not read and the upstream model is not called.
C20_BlankMessageRejected ==
  (BlankMessage /\ Ended) =>
    /\ results = <<[returned |-> IF EndedAt("limit") THEN RateLimitError(variant) ELSE EmptyMessageError]>>
    /\ EndedAt("limit") <=> (Len(BucketOf("i1", UidOf(request.auth))) >= maxReq)
    /\ NothingReadOrSent

\* a whitespace-only message has been answered with "Empty message"
C20_Witness ==
  /\ BlankMessage
  /\ request.data.message.text # <<>>
  /\ Ended
  /\ results = <<[returned |-> EmptyMessageError]>>

\* the prompt of the POST is a non-empty string
GoodPrompt == request.data.prompt.kind = "string" /\ request.data.prompt.text # <<>>

\* the status the handler owes the request
StatusOwed ==
  IF ~GoodPrompt THEN 400
  ELSE IF ~request.keySet THEN 500
  ELSE IF Received("status") THEN 502
  ELSE IF Received("json") THEN 200
  ELSE 500

\* C19: every POST /hf-chat gets exactly one response: 400 when the prompt
\* is missing or no string, 500 when the API key is unset, 502 when the
\* upstream model answers outside 2xx, 500 on any other exception and 200
\* otherwise; nothing is sent upstream in the 400 and missing-key cases.
C19_OneResponsePerPost ==
  variant = "http" =>
    /\ Len(results) <= 1
    /\ invocation.pc = "done" =>
         /\ Len(results) = 1
         /\ results[1].status = StatusOwed
         /\ (~GoodPrompt \/ ~request.keySet) => netLog = <<>>

\* the same, leaving out the answers outside 2xx whose body is no JSON
OneResponseJsonErrors ==
  (variant = "http" /\ ~(Received("status") /\ ~invocation.upstream.body.parses)) =>
    /\ Len(results) <= 1
    /\ invocation.pc = "done" =>
         /\ Len(results) = 1
         /\ results[1].status = StatusOwed
         /\ (~GoodPrompt \/ ~request.keySet) => netLog = <<>>

\* the upstream model answered outside 2xx and the response is a 500
C19_Witness ==
  /\ variant = "http"
  /\ Received("status")
  /\ invocation.pc = "done"
  /\ results[1].status = 500

\* ---------------------------------------------------------------------------
\* The chat clients: sendMessage and callProxy of src/src/ChatAI_HF.jsx
\* (profile context) and of src/clipbook/src/ChatAI_free.jsx (playlist id)
\* ---------------------------------------------------------------------------

\* what the proxy does with the POST: the connection fails, it answers
\* outside 2xx with a body, or with 2xx and a body that is or is not JSON;
\* result tells whether the JSON has a result field that is a string
ProxyAnswers ==
  {[kind |-> "network", status |-> 0, text |-> <<"F", "a", "i", "l", "e", "d", " ", "t", "o", " ", "f", "e", "t", "c", "h">>, result |-> "none"],
   [kind |-> "badjson", status |-> 200, text |-> <<"U", "n", "e", "x", "p", "e", "c", "t", "e", "d", " ", "t", "o", "k", "e", "n", " ", "<", " ", "i", "n", " ", "J", "S", "O", "N", " ", "a", "t", " ", "p", "o", "s", "i", "t", "i", "o", "n", " ", "0">>, result |-> "none"],
   [kind |-> "json", status |-> 200, text |-> <<"W", "a", "t", "c", "h", " ", "t", "h", "e", " ", "p", "a", "n", "d", "a", "s", " ", "c", "l", "i", "p", ".">>, result |-> "string"],
   [kind |-> "json", status |-> 200, text |-> <<>>, result |-> "none"]}
    \cup {[kind |-> "status", status |-> st, text |-> <<"{", "\"", "e", "r", "r", "o", "r", "\"", ":", "\"", "G", "r", "o", "q", " ", "A", "P", "I", " ", "f", "a", "i", "l", "e", "d", "\"", "}">>, result |-> "none"]
            : st \in {400, 500, 502}}

\* the message of the Error callProxy throws for an answer outside 2xx
ProxyError(status, txt) == <<"P", "r", "o", "x", "y", " ", "e", "r", "r", "o", "r", ":", " ">> \o NumToStr(status) \o <<" ">> \o txt

\* the text of the assistant message written in the catch of sendMessage
MutErrorTextBare(message) == OrElse(message, <<"C", "o", "u", "l", "d", " ", "n", "o", "t", " ", "r", "e", "a", "c", "h", " ", "H", "F", " ", "p", "r", "o", "x", "y", ".">>)
ErrorText(message) == <<"E", "r", "r", "o", "r", ":", " ">> \o OrElse(message, <<"C", "o", "u", "l", "d", " ", "n", "o", "t", " ", "r", "e", "a", "c", "h", " ", "H", "F", " ", "p", "r", "o", "x", "y", ".">>)

\* the prompt the client hands to callProxy and the body callProxy posts
ClientPrompt(client, text, pid) ==
  IF client = "profile" THEN text
  ELSE <<"P", "l", "a", "y", "l", "i", "s", "t", "I", "d", ":", " ">> \o OrElse(pid, <<"n", "o", "n", "e">>) \o <<"\n", "U", "s", "e", "r", ":", " ">> \o text \o <<"\n", "A", "s", "s", "i", "s", "t", "a", "n", "t", ":">>
PostedPrompt(client, context, prompt) ==
  IF client = "profile" THEN FullPrompt(context, prompt) ELSE prompt

\* addDoc of one message; ok = Null while the write is not settled
MessageWrite(from, text, ok) == [op |-> "add", what |-> "messages", from |-> from, text |-> text, ok |-> ok]

ClientInputs == {<<>>, <<" ", " ">>, <<" ", "h", "i", " ">>}
ClientRequests ==
  {[client |-> c, input |-> i, convId |-> conv, pid |-> pid]
     : c \in {"profile", "playlist"}, i \in ClientInputs, conv \in {<<>>, <<"c", "o", "n", "v", "1">>}, pid \in {<<>>, <<"p", "1">>}}

InitClient ==
  /\ InitRateIdle
  /\ InitTagsIdle
  /\ InitStoreIdle
  /\ request \in ClientRequests
  /\ response = NoResponse
  /\ profileContext \in {NotLoaded, BuildProfileContext([uid |-> <<"u", "1">>, displayName |-> <<"A", "n", "n">>], <<ProfileClipA>>, <<>>)}
  /\ invocation = NoTask
  /\ netLog = <<>>
  /\ storeLog = <<>>
  /\ results = <<>>

\* sendMessage up to the call of the proxy: nothing happens without a text
\* or a conversation; the user's message is written, and a failure of that
\* write is only logged
SendMessage ==
  LET text == Trim(request.input)
  IN /\ invocation.pc = "idle"
     /\ IF text = <<>> \/ request.convId = <<>>
        THEN /\ invocation' = [pc |-> "done", at |-> "guard"]
             /\ storeLog' = storeLog
        ELSE /\ \E ok \in BOOLEAN : storeLog' = Append(storeLog, MessageWrite("user", text, ok))
             /\ invocation' = [pc |-> "proxy", text |-> text]
     /\ UNCHANGED <<rateVars, respVars, tagVars, storeVars, profileContext, netLog, results>>

\* callProxy: one POST; the reply, or the error that lands in the catch
CallProxy ==
  /\ invocation.pc = "proxy"
  /\ netLog' = Append(netLog,
       [to |-> "hf-chat",
        prompt |-> PostedPrompt(request.client, profileContext,
                                ClientPrompt(request.client, invocation.text, request.pid))])
  /\ \E answer \in ProxyAnswers :
       invocation' =
         IF answer.kind = "json"
         THEN [invocation EXCEPT !.pc = "reply"] @@ [answer |-> answer, reply |-> answer.text]
         ELSE [invocation EXCEPT !.pc = "catch"]
                @@ [answer |-> answer,
                    error |-> IF answer.kind = "status" THEN ProxyError(answer.status, answer.text)
                              ELSE answer.text]
  /\ UNCHANGED <<rateVars, respVars, tagVars, storeVars, profileContext, storeLog, results>>

\* the assistant's reply is written; a reply that is undefined is refused by
\* addDoc, and a refused write lands in the same catch
PersistReply ==
  /\ invocation.pc = "reply"
  /\ \E ok \in (IF invocation.answer.result = "none" THEN {FALSE} ELSE BOOLEAN) :
       IF ok
       THEN /\ storeLog' = Append(storeLog, MessageWrite("assistant", invocation.reply, TRUE))
            /\ invocation' = [invocation EXCEPT !.pc = "done"]
       ELSE /\ storeLog' = Append(storeLog, MessageWrite("assistant", invocation.reply, FALSE))
            /\ invocation' = [invocation EXCEPT !.pc = "catch"] @@ [error |-> <<"M", "i", "s", "s", "i", "n", "g", " ", "o", "r", " ", "i", "n", "s", "u", "f", "f", "i", "c", "i", "e", "n", "t", " ", "p", "e", "r", "m", "i", "s", "s", "i", "o", "n", "s", ".">>]
  /\ UNCHANGED <<rateVars, respVars, tagVars, storeVars, profileContext, netLog, results>>

\* the catch: the error is written as an assistant message; this write is
\* awaited outside any try, so its failure leaves sendMessage as a rejection
PersistError ==
  /\ invocation.pc = "catch"
  /\ \E ok \in BOOLEAN :
       /\ storeLog' = Append(storeLog, MessageWrite("assistant", ErrorText(invocation.error), ok))
       /\ results' = IF ok THEN results ELSE Append(results, [thrown |-> "FirestoreError"])
  /\ invocation' = [invocation EXCEPT !.pc = "done"]
  /\ UNCHANGED <<rateVars, respVars, tagVars, storeVars, profileContext, netLog>>

NextClient == SendMessage \/ CallProxy \/ PersistReply \/ PersistError

SpecClient == InitClient /\ [][NextClient]_vars

\* the call of the proxy failed: no connection, or an answer outside 2xx
ProxyFailed ==
  /\ "answer" \in DOMAIN invocation
  /\ invocation.answer.kind \in {"network", "status"}

\* the assistant messages the conversation log holds
AssistantMessages ==
  SelectSeq(storeLog, LAMBDA w : w.what = "messages" /\ w.from = "assistant" /\ w.ok = TRUE)

OneErrorMessage ==
  /\ Len(AssistantMessages) = 1
  /\ StartsWith(AssistantMessages[1].text, <<"E", "r", "r", "o", "r", ":", " ">>)
  /\ Len(netLog) = 1
  /\ results = <<>>

ErrorWriteAccepted == storeLog[Len(storeLog)].ok = TRUE

SEARCH_LIMIT == 5

SearchClip(id, title, description, tags) ==
  [id |-> id, customTitle |-> title, title |-> <<>>, description |-> description,
   originalUrl |-> <<"h", "t", "t", "p", "s", ":", "/", "/", "y", ".", "t", "u", "b", "e", "/">> \o id, tags |-> tags]

\* the clips searched, newest first
SearchPool ==
  <<SearchClip(<<"s", "1">>, <<"p", "y">>, <<>>, <<>>),
    SearchClip(<<"s", "2">>, <<"p", "y", " ", "g", "o">>, <<>>, <<>>),
    SearchClip(<<"s", "3">>, <<>>, <<"g", "o", " ", "j", "s", " ", "p", "y">>, <<>>),
    SearchClip(<<"s", "4">>, <<"R", "u", "s", "t">>, <<"O", "w", "n", "e", "r", "s", "h", "i", "p">>, <<<<"p", "y">>>>),
    SearchClip(<<"s", "5">>, <<"P", "Y", " ", "i", "n", "t", "r", "o">>, <<"j", "s", " ", "t", "o", "o">>, <<>>),
    SearchClip(<<"s", "6">>, <<"p", "y", "g", "o">>, <<>>, <<<<"j", "s">>>>),
    SearchClip(<<"s", "7">>, <<"j", "s">>, <<"g", "o">>, <<>>),
    SearchClip(<<"s", "8">>, <<"C", "o", "o", "k", "i", "n", "g">>, <<"P", "a", "s", "t", "a">>, <<>>)>>

Rotate(s, n) == [k \in 1..Len(s) |-> s[((k + n - 1) % Len(s)) + 1]]
MaxSearchClips == 8
SearchLibraries ==
  {Rotate(SearchPool, n) : n \in 0..(Len(SearchPool) - 1)}
    \cup {SubSeq(SearchPool, 1, n) : n \in 0..Len(SearchPool)}
    \cup {SubSeq(SearchPool, n, Len(SearchPool)) : n \in 1..Len(SearchPool)}
SearchQueries == {<<>>, <<"p", "y">>, <<"p", "y", " ", "g", "o">>, <<"G", "O", " ", " ", "j", "s">>, <<"p", "y", " ", "p", "y">>, <<"j", "a", "v", "a">>, <<"g", "o", " ", "j", "s", " ", "p", "y">>, <<"R", "u", "s", "t">>}

InitSearch ==
  /\ InitRateIdle
  /\ InitTagsIdle
  /\ InitStoreIdle
  /\ InitChatIdle
  /\ request \in {[library |-> Take(lib, MaxSearchClips), query |-> q] : lib \in SearchLibraries, q \in SearchQueries}
  /\ response = NoResponse

\* hfChat.js line 176: const matches = searchClips(clips, message, 5)
RespondSearch ==
  /\ response = NoResponse
  /\ response' = [by |-> "searchClips", matches |-> SearchClips(request.library, request.query, SEARCH_LIMIT)]
  /\ UNCHANGED <<request, rateVars, tagVars, storeVars, chatVars>>

NextSearch == RespondSearch

SpecSearch == InitSearch /\ [][NextSearch]_vars

Searched == response.by = "searchClips"

\* where a clip stands in the library searched
PlaceOf(c) == CHOOSE k \in 1..Len(request.library) : request.library[k] = c

\* C16: the search fallback returns at most 5 clips, only clips with a
\* positive score, in descending order of score, and clips of equal score in
\* the order they had in the library (recency).
C16_SearchRanked ==
  Searched =>
    LET m == response.matches
    IN /\ Len(m) <= 5
       /\ \A k \in 1..Len(m) :
            /\ m[k] \in Range(request.library)
            /\ ClipScore(request.query, m[k]) > 0
       /\ \A j, k \in 1..Len(m) :
            j < k =>
              /\ ClipScore(request.query, m[j]) >= ClipScore(request.query, m[k])
              /\ ClipScore(request.query, m[j]) = ClipScore(request.query, m[k])
                   => PlaceOf(m[j]) < PlaceOf(m[k])

\* more than 5 clips match, two returned clips tie and two differ in score
C16_Witness ==
  /\ Searched
  /\ Len(response.matches) = 5
  /\ Len(SelectSeq(request.library, LAMBDA c : ClipScore(request.query, c) > 0)) > 5
  /\ \E j, k \in 1..5 :
       j < k /\ ClipScore(request.query, response.matches[j]) = ClipScore(request.query, response.matches[k])
  /\ ClipScore(request.query, response.matches[1]) > ClipScore(request.query, response.matches[5])

\* the score of the claim: the query words found in title, description and tags
ScoreWithTags(query, c) ==
  ScoreText(query, TitleOf(c) \o <<" ">> \o c.description \o <<" ">> \o Join(c.tags, <<" ">>))

\* C17: the score of a clip is the number of whitespace-separated query
\* words that occur, ignoring case, in its title, description and tags, so a
\* clip whose only match is a tag has a positive score and is returned.
C17_TagsScore ==
  Searched =>
    LET scoring == SelectSeq(request.library, LAMBDA c : ScoreWithTags(request.query, c) > 0)
    IN /\ \A c \in Range(request.library) : ClipScore(request.query, c) = ScoreWithTags(request.query, c)
       /\ Len(scoring) <= 5 => Range(scoring) \subseteq Range(response.matches)

\* the score without the tags: title and description only
ScoreCountsWords ==
  Searched =>
    \A c \in Range(request.library) :
      LET text == ToLowerCase(TitleOf(c) \o <<" ">> \o c.description)
          words == Tokens(ToLowerCase(request.query), WhiteSpace, FALSE, <<>>, <<>>)
      IN /\ ClipScore(request.query, c) = Cardinality({k \in 1..Len(words) : Includes(text, words[k])})
         /\ ClipScore(request.query, c) > 0 /\ Len(request.library) <= 5 => c \in Range(response.matches)

\* a clip matches the query by a tag only and is not among the clips returned
C17_Witness ==
  /\ Searched
  /\ \E c \in Range(request.library) :
       /\ ScoreWithTags(request.query, c) > 0
       /\ ClipScore(request.query, c) = 0
       /\ c \notin Range(response.matches)
  /\ Len(response.matches) < 5

\* ---------------------------------------------------------------------------
\* "recommend next" of the browser assistant (ChatAI_free.jsx lines 87-103)
\* ---------------------------------------------------------------------------
MaxRecommendClips == 3
Durations == {NoDuration, 5, 9}

\* the k-th clip of a playlist
RecommendClipAt(k, watched, duration) ==
  [id |-> <<"r">> \o NumToStr(k), customTitle |-> <<"C", "l", "i", "p", " ">> \o NumToStr(k),
   originalUrl |-> <<>>, watchUrl |-> <<"/", "w", "/">> \o NumToStr(k),
   watched |-> watched, duration |-> duration]

RecommendLibraries ==
  UNION {
    {[k \in 1..n |-> RecommendClipAt(k, w[k], d[k])] : w \in [1..n -> BOOLEAN], d \in [1..n -> Durations]}
    : n \in 1..MaxRecommendClips}

InitRecommend ==
  /\ InitRateIdle
  /\ InitTagsIdle
  /\ InitStoreIdle
  /\ InitChatIdle
  /\ request \in {[library |-> lib] : lib \in RecommendLibraries}
  /\ response = NoResponse

\* the recommend branch answers for a playlist holding the library
RespondRecommend ==
  /\ response = NoResponse
  /\ response' = [by |-> "recommend",
                  candidate |-> RecommendCandidate(request.library),
                  reply |-> RecommendFree([playlist |-> <<"C", "o", "u", "r", "s", "e">>, clips |-> request.library])]
  /\ UNCHANGED <<request, rateVars, tagVars, storeVars, chatVars>>

NextRecommend == RespondRecommend

SpecRecommend == InitRecommend /\ [][NextRecommend]_vars

Recommended == response.by = "recommend"

Unwatched(lib) == SelectSeq(lib, LAMBDA c : ~c.watched)
Timed(lib) == SelectSeq(lib, LAMBDA c : c.duration # NoDuration)

\* C18: over a playlist that is not empty, "recommend next" returns the
\* shortest unwatched clip when unwatched clips carry a duration, otherwise
\* the first unwatched clip, and the first clip of the list when all clips
\* are watched.
C18_ShortestUnwatched ==
  Recommended =>
    LET lib == request.library
        c == response.candidate
        open == Unwatched(lib)
    IN IF open = <<>> THEN c = lib[1]
       ELSE IF Timed(open) = <<>> THEN c = open[1]
       ELSE /\ c \in Range(Timed(open))
            /\ \A x \in Range(Timed(open)) : c.duration <= x.duration

\* the same where the shortest clip with a duration is unwatched, or no
\* unwatched clip has a duration
ShortestIfUnwatched ==
  Recommended =>
    LET lib == request.library
        c == response.candidate
        open == Unwatched(lib)
        shortestWatched == \E x \in Range(Timed(lib)) :
                              x.watched /\ \A y \in Range(Timed(open)) : x.duration <= y.duration
    IN IF open = <<>> THEN c = lib[1]
       ELSE IF Timed(open) = <<>> THEN c = open[1]
       ELSE ~shortestWatched =>
              /\ c \in Range(Timed(open))
              /\ \A x \in Range(Timed(open)) : c.duration <= x.duration

\* the claim's example: A without a duration before B of duration 5, both
\* unwatched, and B is recommended
RecommendsB ==
  (Recommended /\ Len(request.library) = 2
     /\ ~request.library[1].watched /\ request.library[1].duration = NoDuration
     /\ ~request.library[2].watched /\ request.library[2].duration = 5)
    => response.candidate = request.library[2]

\* a watched clip is the shortest, an unwatched clip has a duration, and an
\* unwatched clip without a duration is recommended
C18_Witness ==
  /\ Recommended
  /\ Timed(Unwatched(request.library)) # <<>>
  /\ ~response.candidate.watched
  /\ response.candidate.duration = NoDuration

\* ---------------------------------------------------------------------------
\* One mounted chat component: the conversation and its message log
\* (ChatAI_HF.jsx lines 108-130 and 197-233, ChatAI_free.jsx lines 210-228
\* and 263-303)
\* ---------------------------------------------------------------------------
MaxCalls == 2

\* addDoc never touches a document that exists: the collection grows by one
MutAddDocReplace(log, doc) == <<doc>>
MutAddDocFirst(log, doc) == <<doc>> \o log
AddDoc(log, doc) == Append(log, doc)

\* one write to users/{uid}/aiChats/{conv}/messages, settled with ok
MessageDoc(call, uid, conv, from, text, ok) ==
  [op |-> "add", what |-> "messages", call |-> call, uid |-> uid, conv |-> conv,
   from |-> from, text |-> text, ok |-> ok]

\* the write that creates users/{uid}/aiChats/{conv}
ConversationDoc(uid, conv, ok) ==
  [op |-> "add", what |-> "aiChats", call |-> 0, uid |-> uid, conv |-> conv,
   from |-> <<>>, text |-> <<>>, ok |-> ok]

\* the id the store gives the n-th conversation it creates
GeneratedConvId(n) == <<"c", "o", "n", "v">> \o NumToStr(n)

\* const user = auth.currentUser || { uid: "guest" }
UidOrGuest(user) == OrElse(user, <<"g", "u", "e", "s", "t">>)

\* if (!text || !convId) return;
MutSendGuardTextOnly(text, convId) == text = <<>>
SendGuard(text, convId) == text = <<>> \/ convId = <<>>

ChatTexts == {<<" ", " ">>, <<" ", "h", "i", " ">>}

\* what callProxy meets: no connection, or a 2xx answer with a reply
ChatAnswers == {a \in ProxyAnswers : a.kind = "network" \/ a.result = "string"}
ChatInstances ==
  {[client |-> c, convId |-> conv, pid |-> IF c = "playlist" THEN <<"p", "1">> ELSE <<>>, user |-> u]
     : c \in {"profile", "playlist"}, conv \in {<<>>, <<"c", "o", "n", "v", "0">>}, u \in {<<>>, <<"u", "1">>}}

\* a component just mounted: useState(initialConversationId), the effect of
\* the first render not yet run, no addDoc in flight, no sendMessage called
InitChatLog ==
  /\ InitRateIdle
  /\ InitTagsIdle
  /\ InitStoreIdle
  /\ request \in ChatInstances
  /\ response = NoResponse
  /\ profileContext = NotLoaded
  /\ invocation = [pc |-> "mounted", user |-> request.user, convId |-> request.convId,
                   effect |-> "due", creating |-> 0, guarded |-> FALSE, calls |-> <<>>]
  /\ netLog = <<>>
  /\ storeLog = <<>>
  /\ results = <<>>

ConversationsCreated == SelectSeq(storeLog, LAMBDA w : w.what = "aiChats" /\ w.ok = TRUE)

\* the effect with dependency [auth.currentUser]: without a user it returns;
\* ensureConv adds a conversation document only while convId is empty
EnsureConv ==
  /\ invocation.pc = "mounted"
  /\ invocation.effect = "due"
  /\ invocation' =
       IF invocation.user # <<>> /\ invocation.convId = <<>>
       THEN [invocation EXCEPT !.effect = "idle", !.creating = @ + 1]
       ELSE [invocation EXCEPT !.effect = "idle"]
  /\ UNCHANGED <<rateVars, respVars, tagVars, storeVars, profileContext, netLog, storeLog, results>>

\* the addDoc of ensureConv settles: setConvId(convRef.id), or the failure,
\* which ChatAI_HF.jsx catches and ChatAI_free.jsx leaves as a rejection
EnsureConvSettles ==
  /\ invocation.creating > 0
  /\ \E ok \in BOOLEAN :
       LET conv == GeneratedConvId(Len(ConversationsCreated) + 1)
       IN /\ storeLog' = AddDoc(storeLog, ConversationDoc(invocation.user, conv, ok))
          /\ invocation' =
               IF ok THEN [invocation EXCEPT !.creating = @ - 1, !.convId = conv]
               ELSE [invocation EXCEPT !.creating = @ - 1]
          /\ results' =
               IF ok \/ request.client = "profile" THEN results
               ELSE Append(results, [thrown |-> "FirestoreError"])
  /\ UNCHANGED <<rateVars, respVars, tagVars, storeVars, profileContext, netLog>>

\* auth.currentUser changes under a mounted component: the first sign-in,
\* after which the effect is due again (after a sign-out App replaces the
\* Dashboard, and the component with it)
AuthChanged ==
  /\ invocation.pc = "mounted"
  /\ invocation.user = <<>>
  /\ invocation' = [invocation EXCEPT !.user = <<"u", "1">>, !.effect = "due"]
  /\ UNCHANGED <<rateVars, respVars, tagVars, storeVars, profileContext, netLog, storeLog, results>>

\* sendMessage up to its first await: the guard, then the addDoc of the
\* user's message is under way
SendMessageStarts ==
  /\ invocation.pc = "mounted"
  /\ Len(invocation.calls) < MaxCalls
  /\ \E input \in ChatTexts :
       LET text == Trim(input)
       IN invocation' =
            IF SendGuard(text, invocation.convId)
            THEN [invocation EXCEPT !.guarded = TRUE]
            ELSE [invocation EXCEPT !.calls =
                    Append(@, [pc |-> "user", at |-> "user", text |-> text,
                               conv |-> invocation.convId, uid |-> UidOrGuest(invocation.user)])]
  /\ UNCHANGED <<rateVars, respVars, tagVars, storeVars, profileContext, netLog, storeLog, results>>

\* the user's message is written or refused (a refusal is only logged), and
\* callProxy posts the prompt
UserWriteSettles ==
  \E i \in 1..Len(invocation.calls) :
    LET c == invocation.calls[i]
    IN /\ c.pc = "user"
       /\ \E ok \in BOOLEAN :
            storeLog' = AddDoc(storeLog, MessageDoc(i, c.uid, c.conv, "user", c.text, ok))
       /\ netLog' = Append(netLog,
            [to |-> "hf-chat", call |-> i,
             prompt |-> PostedPrompt(request.client, profileContext,
                                     ClientPrompt(request.client, c.text, request.pid))])
       /\ invocation' = [invocation EXCEPT !.calls[i].pc = "proxy"]
       /\ UNCHANGED <<rateVars, respVars, tagVars, storeVars, profileContext, results>>

\* callProxy returns the reply, or throws into the catch of sendMessage
ProxyReturns ==
  \E i \in 1..Len(invocation.calls) :
    LET c == invocation.calls[i]
    IN /\ c.pc = "proxy"
       /\ \E answer \in ChatAnswers :
            invocation' =
              [invocation EXCEPT !.calls[i] =
                 IF answer.kind = "json"
                 THEN [c EXCEPT !.pc = "reply"] @@ [answer |-> answer, reply |-> answer.text]
                 ELSE [c EXCEPT !.pc = "catch"]
                        @@ [answer |-> answer,
                            reply |-> IF answer.kind = "status"
                                      THEN ErrorText(ProxyError(answer.status, answer.text))
                                      ELSE ErrorText(answer.text)]]
       /\ UNCHANGED <<rateVars, respVars, tagVars, storeVars, profileContext, netLog, storeLog, results>>

\* the addDoc of the reply settles; a reply that is undefined is refused,
\* and a refusal lands in the catch
ReplySettles ==
  \E i \in 1..Len(invocation.calls) :
    LET c == invocation.calls[i]
    IN /\ c.pc = "reply"
       /\ \E ok \in (IF c.answer.result = "none" THEN {FALSE} ELSE BOOLEAN) :
            /\ storeLog' = AddDoc(storeLog, MessageDoc(i, c.uid, c.conv, "assistant", c.reply, ok))
            /\ invocation' =
                 [invocation EXCEPT !.calls[i] =
                    IF ok THEN [c EXCEPT !.pc = "done", !.at = "reply"]
                    ELSE [c EXCEPT !.pc = "catch",
                                   !.reply = ErrorText(<<"M", "i", "s", "s", "i", "n", "g", " ", "o", "r", " ", "i", "n", "s", "u", "f", "f", "i", "c", "i", "e", "n", "t", " ", "p", "e", "r", "m", "i", "s", "s", "i", "o", "n", "s", ".">>)]]
       /\ UNCHANGED <<rateVars, respVars, tagVars, storeVars, profileContext, netLog, results>>

\* the addDoc in the catch settles; it is awaited outside any try
ErrorSettles ==
  \E i \in 1..Len(invocation.calls) :
    LET c == invocation.calls[i]
    IN /\ c.pc = "catch"
       /\ \E ok \in BOOLEAN :
            /\ storeLog' = AddDoc(storeLog, MessageDoc(i, c.uid, c.conv, "assistant", c.reply, ok))
            /\ results' = IF ok THEN results ELSE Append(results, [thrown |-> "FirestoreError"])
       /\ invocation' = [invocation EXCEPT !.calls[i].pc = "done", !.calls[i].at = "catch"]
       /\ UNCHANGED <<rateVars, respVars, tagVars, storeVars, profileContext, netLog>>

NextChatLog ==
  \/ EnsureConv
  \/ EnsureConvSettles
  \/ AuthChanged
  \/ SendMessageStarts
  \/ UserWriteSettles
  \/ ProxyReturns
  \/ ReplySettles
  \/ ErrorSettles

SpecChatLog == InitChatLog /\ [][NextChatLog]_vars

\* the message documents the store holds, in the order they were written
MessageDocs == SelectSeq(storeLog, LAMBDA w : w.what = "messages" /\ w.ok = TRUE)

\* C21: the message log of a conversation is append-only: whatever
\* sendMessage calls succeed or fail, every message document written before
\* is still there, at its place, with the same conversation, from and text,
\* and the from of every message is "user" or "assistant".
C21_AppendOnly ==
  [][/\ \A k \in 1..Len(MessageDocs) :
          /\ k <= Len(MessageDocs')
          /\ MessageDocs'[k] = MessageDocs[k]
     /\ \A k \in 1..Len(MessageDocs') : MessageDocs'[k].from \in {"user", "assistant"}]_vars

\* two calls have finished, one of them in the catch, and the log holds the
\* messages of both
C21_Witness ==
  /\ Len(invocation.calls) = 2
  /\ \A i \in 1..2 : invocation.calls[i].pc = "done"
  /\ \E i \in 1..2 : invocation.calls[i].at = "catch"
  /\ \E i \in 1..2 : invocation.calls[i].at = "reply"
  /\ Len(MessageDocs) = 4

\* the writes to a messages collection, accepted or refused
MessageWrites == SelectSeq(storeLog, LAMBDA w : w.what = "messages")

\* C22: the conversation is created lazily and once: a component given no
\* initial conversation id creates at most one conversation document (and a
\* component given one creates none), and as long as the component has no
\* conversation id sendMessage writes no message and calls no proxy; every
\* message written and every proxy call belongs to a call that had an id.
C22_CreatedOnce ==
  /\ Len(ConversationsCreated) <= 1
  /\ request.convId # <<>> => ConversationsCreated = <<>>
  /\ invocation.convId = <<>> => MessageWrites = <<>> /\ netLog = <<>>
  /\ \A k \in 1..Len(MessageWrites) : MessageWrites[k].conv # <<>>
  /\ \A k \in 1..Len(netLog) : invocation.calls[netLog[k].call].conv # <<>>

\* sendMessage returned at its guard while the only conversation was still
\* being created, and nothing was written or posted
C22_Witness ==
  /\ request.convId = <<>>
  /\ invocation.convId = <<>>
  /\ invocation.creating = 1
  /\ invocation.guarded
  /\ storeLog = <<>>
  /\ netLog = <<>>

\* ---------------------------------------------------------------------------
\* Intent detection (hfChat.js lines 65-73 and 140)
\* ---------------------------------------------------------------------------
MaxIntentWords == 2

IntentWords ==
  {<<"S", "u", "m", "m", "a", "r", "y">>, <<"o", "v", "e", "r", "v", "i", "e", "w">>, <<"s", "u", "m", "m", "a", "r", "i", "s", "e">>, <<"r", "e", "c", "o", "m", "m", "e", "n", "d">>, <<"w", "h", "a", "t", " ", "N", "E", "X", "T">>, <<"s", "u", "g", "g", "e", "s", "t">>,
   <<"Q", "U", "I", "Z">>, <<"t", "e", "s", "t", " ", "m", "e">>, <<"q", "u", "e", "s", "t", "i", "o", "n">>, <<"p", "l", "a", "n">>, <<"S", "t", "u", "d", "y", " ", "P", "l", "a", "n">>, <<"f", "i", "n", "d">>, <<"w", "h", "i", "c", "h">>,
   <<"w", "h", "e", "r", "e">>, <<"s", "e", "a", "r", "c", "h">>, <<"?">>, <<"h", "e", "l", "l", "o">>, <<"t", "e", "s", "t">>, <<"m", "e">>}

\* the messages of up to n words, joined by one space
RECURSIVE IntentMessages(_)
IntentMessages(n) ==
  IF n = 0 THEN {<<>>}
  ELSE LET shorter == IntentMessages(n - 1)
       IN shorter \cup {IF m = <<>> THEN w ELSE m \o <<" ">> \o w : m \in shorter, w \in IntentWords}

InitIntent ==
  /\ InitRateIdle
  /\ InitTagsIdle
  /\ InitStoreIdle
  /\ InitChatIdle
  /\ request \in {[message |-> m] : m \in IntentMessages(MaxIntentWords)}
  /\ response = NoResponse

\* hfChat.js line 140: const intent = detectIntent(message)
RespondIntent ==
  /\ response = NoResponse
  /\ response' = [by |-> "detectIntent", intent |-> DetectIntent(request.message)]
  /\ UNCHANGED <<request, rateVars, tagVars, storeVars, chatVars>>

NextIntent == RespondIntent

SpecIntent == InitIntent /\ [][NextIntent]_vars

\* the keyword groups in the order the claim gives them
KeywordGroups ==
  <<[intent |-> "summarize", keywords |-> {<<"s", "u", "m", "m", "a", "r">>, <<"o", "v", "e", "r", "v", "i", "e", "w">>, <<"s", "u", "m", "m", "a", "r", "y">>}],
    [intent |-> "recommend", keywords |-> {<<"r", "e", "c", "o", "m", "m", "e", "n", "d">>, <<"n", "e", "x", "t">>, <<"w", "h", "a", "t", " ", "n", "e", "x", "t">>, <<"s", "u", "g", "g", "e", "s", "t">>}],
    [intent |-> "quiz", keywords |-> {<<"q", "u", "i", "z">>, <<"q", "u", "e", "s", "t", "i", "o", "n">>, <<"t", "e", "s", "t", " ", "m", "e">>}],
    [intent |-> "plan", keywords |-> {<<"p", "l", "a", "n">>, <<"s", "t", "u", "d", "y", " ", "p", "l", "a", "n">>}],
    [intent |-> "search", keywords |-> {<<"f", "i", "n", "d">>, <<"s", "e", "a", "r", "c", "h">>, <<"w", "h", "i", "c", "h">>, <<"w", "h", "e", "r", "e">>, <<"?">>}]>>

\* the groups a keyword of which occurs in the lower-cased message
GroupsMatching(message) ==
  {g \in 1..Len(KeywordGroups) :
     \E kw \in KeywordGroups[g].keywords : Includes(ToLowerCase(message), kw)}

IntentDetected == response.by = "detectIntent"

\* C23: detectIntent gives every message exactly one of the five intents:
\* that of the first keyword group, in the order summarize, recommend, quiz,
\* plan, search, a keyword of which occurs in the message, and "search" for
\* a message in which no keyword occurs.
C23_FirstMatchingGroup ==
  IntentDetected =>
    LET matching == GroupsMatching(request.message)
    IN /\ response.intent \in {"summarize", "recommend", "quiz", "plan", "search"}
       /\ response.intent =
            IF matching = {} THEN "search"
            ELSE KeywordGroups[CHOOSE g \in matching : \A h \in matching : g <= h].intent

\* a message with keywords of two groups got the intent of the earlier one
C23_Witness ==
  /\ IntentDetected
  /\ GroupsMatching(request.message) = {2, 4}
  /\ response.intent = "recommend"

\* the places in the log of the writes of one call by one author
WritesOf(log, call, from) ==
  {k \in 1..Len(log) : log[k].call = call /\ log[k].from = from}

\* the statement as claimed: every assistant message in the log is preceded
\* by the user message of the same call
C24_AssistantAfterUserMessage ==
  \A k \in 1..Len(MessageDocs) :
    MessageDocs[k].from = "assistant" =>
      \E j \in WritesOf(MessageDocs, MessageDocs[k].call, "user") : j < k

\* C24: within one sendMessage call the writes are sequential: an assistant
\* message (reply or error) is written only after the call's user-message
\* write has settled and its proxy call has returned; so an assistant
\* message in the log is preceded by the user message of the same call
\* whenever the store accepted that user message, and stands without one
\* when the store refused it.
C24_WritesSequential ==
  \A k \in 1..Len(MessageWrites) :
    LET w == MessageWrites[k]
        users == WritesOf(MessageWrites, w.call, "user")
    IN w.from = "assistant" =>
         /\ Cardinality(users) = 1
         /\ \A j \in users : j < k
         /\ "answer" \in DOMAIN invocation.calls[w.call]
         /\ \E n \in 1..Len(netLog) : netLog[n].call = w.call
         /\ w.ok =>
              \A j \in users :
                IF MessageWrites[j].ok
                THEN \E d \in WritesOf(MessageDocs, w.call, "user") :
                       \E a \in WritesOf(MessageDocs, w.call, "assistant") : d < a
                ELSE WritesOf(MessageDocs, w.call, "user") = {}

\* two calls overlapped: the log holds the user messages of both and then
\* the assistant messages in the opposite order
C24_Witness ==
  /\ Len(MessageDocs) = 4
  /\ [k \in 1..4 |-> MessageDocs[k].call] = <<1, 2, 2, 1>>
  /\ [k \in 1..4 |-> MessageDocs[k].from] = <<"user", "user", "assistant", "assistant">>

\* ---------------------------------------------------------------------------
\* Reply extraction (ChatAI_HF.jsx lines 190-194, ChatAI_free.jsx lines
\* 253-259, src/unnamed/part_001 lines 106-125)
\* ---------------------------------------------------------------------------
Quoted(text) == <<"\"">> \o text \o <<"\"">>

\* JSON.stringify of the value of the given shape around the given text
Stringify(shape, text) ==
  CASE shape = "array" -> <<"[", "{", "\"", "g", "e", "n", "e", "r", "a", "t", "e", "d", "_", "t", "e", "x", "t", "\"", ":">> \o Quoted(text) \o <<"}", "]">>
    [] shape = "object" -> <<"{", "\"", "g", "e", "n", "e", "r", "a", "t", "e", "d", "_", "t", "e", "x", "t", "\"", ":">> \o Quoted(text) \o <<"}">>
    [] shape = "data" -> <<"{", "\"", "d", "a", "t", "a", "\"", ":", "[", "{", "\"", "g", "e", "n", "e", "r", "a", "t", "e", "d", "_", "t", "e", "x", "t", "\"", ":">> \o Quoted(text) \o <<"}", "]", "}">>
    [] shape = "string" -> Quoted(text)
    [] shape = "other" -> <<"{", "\"", "e", "r", "r", "o", "r", "\"", ":">> \o Quoted(text) \o <<"}">>
    [] shape = "null" -> <<"n", "u", "l", "l">>
    [] shape = "missing" -> <<>>

ReplyTexts == {<<>>, <<"H", "i">>, <<"W", "a", "t", "c", "h", " ", "t", "h", "e", " ", "p", "a", "n", "d", "a", "s", " ", "c", "l", "i", "p", ".">>, <<"g", "e", "n", "e", "r", "a", "t", "e", "d", "_", "t", "e", "x", "t">>, <<"n", "u", "l", "l">>, <<"[", "]">>, <<" ">>, <<"0">>}

\* the value the reply is read from: the whole body in the callable, the
\* body's result field in the clients ("missing": the body has no result)
ReplyValues ==
  {[shape |-> sh, text |-> t, raw |-> Stringify(sh, t)]
     : sh \in {"array", "object", "data", "string", "other"}, t \in ReplyTexts}
    \cup {[shape |-> sh, text |-> <<>>, raw |-> Stringify(sh, <<>>)] : sh \in {"null", "missing"}}

\* a reply: a string, or the value undefined
StringReply(text) == [type |-> "string", text |-> text]
UndefinedReply == [type |-> "undefined", text |-> <<>>]

\* callProxy after resp.json(): the reply read from j.result
ClientReply(v) ==
  IF v.shape = "array" /\ v.text # <<>> THEN StringReply(v.text)
  ELSE IF v.shape = "object" /\ v.text # <<>> THEN StringReply(v.text)
  ELSE IF v.shape = "string" THEN StringReply(v.text)
  ELSE IF v.shape = "missing" THEN UndefinedReply
  ELSE StringReply(v.raw)

InitExtract ==
  /\ InitRateIdle
  /\ InitTagsIdle
  /\ InitStoreIdle
  /\ InitChatIdle
  /\ request \in {[by |-> b, value |-> v]
                    : b \in {"profile", "playlist", "callable"}, v \in ReplyValues}
  /\ request.by = "callable" => request.value.shape # "missing"
  /\ response = NoResponse

\* the reply of a 2xx answer, by callProxy of either client or by the callable
RespondExtract ==
  /\ response = NoResponse
  /\ response' =
       [by |-> "extract",
        reply |-> IF request.by = "callable" THEN StringReply(ExtractReply(request.value))
                  ELSE ClientReply(request.value)]
  /\ UNCHANGED <<request, rateVars, tagVars, storeVars, chatVars>>

NextExtract == RespondExtract

SpecExtract == InitExtract /\ [][NextExtract]_vars

Extracted == response.by = "extract"

\* C25: reply extraction tries the shapes in a fixed order (array whose first
\* element has generated_text, object with generated_text, plain string,
\* JSON.stringify) and yields a string for every 2xx body, also for a body
\* without a result field.
C25_AlwaysString ==
  Extracted => response.reply.type = "string"

\* the order of the shapes, and a string wherever there is a value to read
ExtractionOrder ==
  Extracted =>
    LET v == request.value
    IN /\ (v.shape \in {"array", "object"} /\ v.text # <<>>) => response.reply = StringReply(v.text)
       /\ v.shape = "string" => response.reply = StringReply(v.text)
       /\ (v.shape \in {"other", "null"} \/ (v.shape \in {"array", "object"} /\ v.text = <<>>))
            => response.reply = StringReply(Take(v.raw, REPLY_CAP))
       /\ v.shape # "missing" => response.reply.type = "string"

\* callProxy got a 2xx body without a result field and returned undefined
C25_Witness ==
  /\ Extracted
  /\ request.by = "profile"
  /\ request.value.shape = "missing"
  /\ response.reply = UndefinedReply

\* ---------------------------------------------------------------------------
\* Isolation of the rate-limit buckets (hfChat.js lines 14-26 and 129-131,
\* src/unnamed/part_001 lines 64-66)
\* ---------------------------------------------------------------------------
MaxTicksIsolation == 2

\* the people who call: one signed in, two who are not
People == {"ann", "guest1", "guest2"}
AuthOf(who) == IF who = "ann" THEN "u1" ELSE NoAuth

\* what one invocation returns after the rate-limit check on bucket arr
HfChatResult(arr, m) ==
  IF ~WithinLimitOk(arr, now, maxReq) THEN RateLimitError(variant)
  ELSE IF IsEmptyMessage(m) THEN EmptyMessageError
  ELSE [pending |-> TRUE]

\* Two runs of one function instance side by side: run "i1" serves the calls
\* of everyone, run "i2" only the calls keyed to the observed user id, at the
\* same times and with the same messages.
InitIsolation ==
  /\ InitTagsIdle
  /\ InitStoreIdle
  /\ InitChatIdle
  /\ request \in {[observed |-> u, served |-> {}] : u \in Uids}
  /\ response = NoResponse
  /\ now = 0
  /\ buckets = [i \in Instances |-> [u \in Uids |-> <<>>]]
  /\ accepted = [i \in Instances |-> [u \in Uids |-> <<>>]]
  /\ last = Idle
  /\ variant \in Variants
  /\ maxReq = ScaledCap

\* one invocation by one of the people; request.served remembers who was
\* let through by the rate limiter
IsolationCall ==
  \E who \in People, m \in RateMessages :
    LET uid == UidOf(AuthOf(who))
        runs == IF uid = request.observed THEN Instances ELSE {"i1"}
    IN /\ buckets' =
            [i \in Instances |->
               IF i \in runs
               THEN [buckets[i] EXCEPT ![uid] = WithinLimitBucket(BucketOf(i, uid), now, maxReq)]
               ELSE buckets[i]]
       /\ last' = [op |-> "hfChat", who |-> who, auth |-> AuthOf(who), uid |-> uid,
                   result |-> HfChatResult(BucketOf("i1", uid), m),
                   alone |-> HfChatResult(BucketOf("i2", uid), m),
                   others |-> {v \in Uids \ {uid} : buckets'["i1"][v] # buckets["i1"][v]}]
       /\ request' = IF WithinLimitOk(BucketOf("i1", uid), now, maxReq)
                     THEN [request EXCEPT !.served = @ \cup {who}]
                     ELSE request
       /\ UNCHANGED <<now, variant, maxReq, accepted, response, tagVars, storeVars, chatVars>>

NextIsolation ==
  \/ IsolationCall
  \/ Tick(MaxTicksIsolation)

SpecIsolation == InitIsolation /\ [][NextIsolation]_vars

\* the last step was a call keyed to the observed user id
ObservedCalled == last.op = "hfChat" /\ last.uid = request.observed

\* C26: the buckets are isolated per user id: whatever the callers with
\* another id do, the bucket of a user is what it would be without them and
\* so is the result of the user's next call; a call changes no bucket but
\* that of its own id; every call without authentication is keyed
\* "anonymous", so all such callers fill one bucket.
C26_BucketsIsolated ==
  /\ buckets["i1"][request.observed] = buckets["i2"][request.observed]
  /\ ObservedCalled => last.result = last.alone
  /\ last.op = "hfChat" =>
       /\ last.others = {}
       /\ last.auth = NoAuth => last.uid = "anonymous"
       /\ last.auth # NoAuth => last.uid = last.auth

\* the signed-in user is served while the anonymous bucket is full, and
\* that bucket was filled by two different callers
C26_Witness ==
  /\ ObservedCalled
  /\ last.uid = "u1"
  /\ "pending" \in DOMAIN last.result
  /\ Len(Recent(buckets["i1"]["anonymous"], now)) = maxReq
  /\ buckets["i2"]["anonymous"] = <<>>
  /\ request.served = People

\* ---------------------------------------------------------------------------
\* Rate limit before validation: calls of one caller in a row (hfChat.js
\* lines 129-136, src/unnamed/part_001 lines 64-71)
\* ---------------------------------------------------------------------------
MaxOrderCalls == 4

OrderMessages ==
  {MissingMessage, ObjectMessage, StringMessage(<<" ", "\n">>), StringMessage(<<"h", "i">>)}

\* the first call of a caller at a fresh instance, the cap scaled down
InitOrder ==
  /\ InitTagsIdle
  /\ InitStoreIdle
  /\ \/ request \in {r \in LlmRequests : r.data.message \in OrderMessages /\ r.data.playlistId = <<>>
                                          /\ r.store.lists = <<>> /\ r.store.library = <<>> /\ ~r.store.fails}
     \/ request \in {r \in RuleRequests : r.data.message \in OrderMessages /\ r.sc.library = <<>>
                                           /\ r.sc.pid = Null /\ r.sc.plName = <<>> /\ ~r.sc.fails}
  /\ response = NoResponse
  /\ now = 0
  /\ variant = request.variant
  /\ maxReq = ScaledCap
  /\ buckets = [i \in Instances |-> [u \in Uids |-> <<>>]]
  /\ accepted = [i \in Instances |-> [u \in Uids |-> <<>>]]
  /\ last = Idle
  /\ profileContext = <<>>
  /\ invocation = NoTask
  /\ netLog = <<>>
  /\ storeLog = <<>>
  /\ results = <<>>

\* the caller's next call arrives, also while the call before it waits at
\* its first await (it is entered in results as pending)
NextCall ==
  /\ invocation.pc \in {"done", "context"}
  /\ Len(results) + (IF invocation.pc = "context" THEN 1 ELSE 0) < MaxOrderCalls
  /\ \E m \in OrderMessages : request' = [request EXCEPT !.data.message = m]
  /\ results' = IF invocation.pc = "context" THEN Append(results, [pending |-> TRUE]) ELSE results
  /\ invocation' = NoTask
  /\ UNCHANGED <<rateVars, response, tagVars, storeVars, profileContext, netLog, storeLog>>

NextOrder == Invoke \/ NextCall

SpecOrder == InitOrder /\ [][NextOrder]_vars

\* the calls the handler has been entered for
CallsEntered ==
  Len(results) + (IF invocation.pc = "context" THEN 1 ELSE 0)

\* C27: the rate-limit check runs before the validation of the message: a
\* call that ends with "Empty message" has put its timestamp into the
\* caller's bucket and counts toward the cap like any other call; a call
\* the rate limiter rejects gets the rate-limit error whatever its message,
\* is not validated and reads nothing.
C27_LimitBeforeValidation ==
  LET bucket == BucketOf("i1", UidOf(request.auth))
  IN /\ Len(bucket) = IF CallsEntered < maxReq THEN CallsEntered ELSE maxReq
     /\ \A k \in 1..Len(results) :
          (results[k] = [returned |-> RateLimitError(variant)]) <=> (k > maxReq)
     /\ EndedAt("validate") =>
          /\ results[Len(results)] = [returned |-> EmptyMessageError]
          /\ bucket # <<>> /\ bucket[Len(bucket)] = now
     /\ EndedAt("limit") => NothingReadOrSent

\* calls with blank messages used up the cap, and the next call, whose
\* message would not convert, was rejected by the rate limiter
C27_Witness ==
  /\ Len(results) = maxReq + 1
  /\ \A k \in 1..maxReq : results[k] = [returned |-> EmptyMessageError]
  /\ EndedAt("limit")
  /\ request.data.message = ObjectMessage
  /\ results[maxReq + 1] = [returned |-> RateLimitError(variant)]

\* ---------------------------------------------------------------------------
\* Playlist membership under toggleClipPlaylist and deletePlaylist alone
\* (src/unnamed/part_002 lines 180-200 and 216-230)
\* ---------------------------------------------------------------------------
MaxMembershipOps == 3

NextMembership ==
  \/ ClipsSnapshot
  \/ PlaylistsSnapshot
  \/ \E c \in ClipIds, p \in StorePlaylists, add \in BOOLEAN :
       ToggleClipPlaylist(c, p, add, MaxMembershipOps)
  \/ \E p \in StorePlaylists : DeletePlaylist(p, MaxMembershipOps)
  \/ DeletePlaylistQuery
  \/ DeletePlaylistUpdate

SpecMembership == InitPlaylists /\ [][NextMembership]_vars

\* the clips that name a playlist whose document does not exist
Dangling ==
  {c \in LiveClips(clipDocs) : ~(Range(clipDocs[c].playlistIds) \subseteq playlistDocs)}

\* C28: referential integrity of playlist membership: however
\* toggleClipPlaylist and deletePlaylist interleave, in every state in which
\* no deletePlaylist is in progress every playlist id in a clip's
\* playlistIds names an existing playlist.
C28_MembersExist ==
  deleteTask.pc \in {"idle", "done"} => Dangling = {}

\* deletePlaylist has returned from its try block, and a clip names the
\* deleted playlist
C28_Witness ==
  /\ deleteTask.pc = "done"
  /\ deleteTask.ok
  /\ Dangling # {}

\* ---------------------------------------------------------------------------
\* replaceTagOnClip on its own, its writes free to be rejected
\* (ChatAI_HF.jsx lines 619-642)
\* ---------------------------------------------------------------------------
MaxReplaceOps == 2

ReplaceInputs == TagInputs \cup {<<"a">>, <<"B", " ">>}

\* replaceTagOnClip has returned; `before` is the stored list it found and
\* `seen` the list the component's state held
Replaced(c, oldTag, newTag, before, seen, by) ==
  [pc |-> "done", clip |-> c, oldTag |-> oldTag, newTag |-> newTag, before |-> before,
   seen |-> seen, by |-> by]

\* replaceTagOnClip(clipId, oldTag, newTagRaw) up to the end of its first
\* awaited updateDoc, which the store accepts or rejects
ReplaceTagStarts ==
  \E c \in ClipIds, newTagRaw \in ReplaceInputs :
    \E oldTag \in Range(clipsSnap[c].tags) :
      LET newTag == NormalizeTag(newTagRaw)
          current == CurrentTags(c)
          before == clipDocs[c].tags
          seen == clipsSnap[c].tags
      IN /\ Invoked(MaxReplaceOps)
         /\ replaceTask.pc \in {"idle", "done"}
         /\ clipsSnap[c].known
         /\ Live(c)
         /\ IF newTag = <<>>
            THEN /\ replaceTask' = Replaced(c, oldTag, newTag, before, seen, "empty")
                 /\ clipDocs' = clipDocs
            ELSE IF newTag \in Range(current)
            THEN \E ok \in BOOLEAN :
                   /\ clipDocs' = IF ok THEN [clipDocs EXCEPT ![c].tags = ArrayRemove(@, oldTag)]
                                  ELSE clipDocs
                   /\ replaceTask' = Replaced(c, oldTag, newTag, before, seen, IF ok THEN "present" ELSE "catch")
            ELSE IF Len(current) >= 3 /\ oldTag \notin Range(current)
            THEN /\ replaceTask' = Replaced(c, oldTag, newTag, before, seen, "alert")
                 /\ clipDocs' = clipDocs
            ELSE \E ok \in BOOLEAN :
                   /\ clipDocs' = IF ok THEN [clipDocs EXCEPT ![c].tags = ArrayRemove(@, oldTag)]
                                  ELSE clipDocs
                   /\ replaceTask' =
                        IF ok THEN [pc |-> "arrayUnion", clip |-> c, oldTag |-> oldTag,
                                    newTag |-> newTag, before |-> before, seen |-> seen]
                        ELSE Replaced(c, oldTag, newTag, before, seen, "catch")
         /\ UNCHANGED <<playlistDocs, clipsSnap, playlistsSnap, deleteTask,
                        rateVars, respVars, tagVars, chatVars>>

\* the second awaited updateDoc, arrayUnion(newTag), accepted or rejected
ReplaceTagSecondWrite ==
  /\ replaceTask.pc = "arrayUnion"
  /\ \E ok \in BOOLEAN :
       /\ clipDocs' = IF ok THEN [clipDocs EXCEPT ![replaceTask.clip].tags = ArrayUnion(@, replaceTask.newTag)]
                      ELSE clipDocs
       /\ replaceTask' = Replaced(replaceTask.clip, replaceTask.oldTag, replaceTask.newTag,
                                  replaceTask.before, replaceTask.seen, IF ok THEN "replaced" ELSE "catch")
  /\ UNCHANGED <<playlistDocs, clipsSnap, playlistsSnap, deleteTask, opCount,
                 rateVars, respVars, tagVars, chatVars>>

NextReplaceTag ==
  \/ ClipsSnapshot
  \/ ReplaceTagStarts
  \/ ReplaceTagSecondWrite

SpecReplaceTag == InitClipTags /\ [][NextReplaceTag]_vars

\* C29: replaceTagOnClip is all-or-nothing on the stored tags: when it has
\* finished, normally or with an error, the stored tags are those it found,
\* or those with old replaced by new (old only removed when new was there
\* already); the other tags are untouched either way.
C29_AllOrNothing ==
  replaceTask.pc = "done" =>
    LET before == Range(replaceTask.before)
        after == Range(clipDocs[replaceTask.clip].tags)
        old == replaceTask.oldTag
        new == replaceTask.newTag
    IN /\ \/ after = before
          \/ after = (before \ {old}) \cup {new}
          \/ new \in before /\ after = before \ {old}
       /\ before \ {old, new} = after \ {old, new}

\* what holds: the other tags are untouched, and old is gone whenever the
\* list was changed
OtherTagsUntouched ==
  replaceTask.pc = "done" =>
    LET before == Range(replaceTask.before)
        after == Range(clipDocs[replaceTask.clip].tags)
    IN /\ before \ {replaceTask.oldTag, replaceTask.newTag} = after \ {replaceTask.oldTag, replaceTask.newTag}
       /\ after # before => replaceTask.oldTag \notin after

\* the second write was rejected: old is removed and new is not there
C29_Witness ==
  /\ replaceTask.pc = "done"
  /\ replaceTask.by = "catch"
  /\ replaceTask.before = <<<<"a">>, <<"b">>>>
  /\ replaceTask.oldTag = <<"a">>
  /\ replaceTask.newTag = <<"d">>
  /\ clipDocs[replaceTask.clip].tags = <<<<"b">>>>

\* what holds besides: a call that starts from the stored tags and none of
\* whose writes is rejected leaves them unchanged or with old replaced by new
AllOrNothingUnlessRejected ==
  (replaceTask.pc = "done" /\ replaceTask.by # "catch" /\ replaceTask.seen = replaceTask.before)
    => C29_AllOrNothing

\* ---------------------------------------------------------------------------
\* The free assistant's component (ChatAI_free.jsx lines 34-158): history,
\* input and loading are the fields of the component's state
\* ---------------------------------------------------------------------------
MaxFreeCalls == 2

FreeInputs ==
  {<<" ", " ">>, <<" ", "H", "e", "l", "p", " ">>, <<"h", "i">>, <<"r", "e", "c", "o", "m", "m", "e", "n", "d", " ", "n", "e", "x", "t">>, <<"s", "u", "m", "m", "a", "r", "i", "z", "e", " ", "p", "l", "a", "y", "l", "i", "s", "t">>, <<"p", "a", "n", "d", "a", "s">>}

FreeScenarios == {sc \in Scenarios : Len(sc.library) \in {0, 3}}

\* useState([]), useState(""), useState(false)
InitFreeChat ==
  /\ InitRateIdle
  /\ InitTagsIdle
  /\ InitStoreIdle
  /\ request \in {[sc |-> sc] : sc \in FreeScenarios}
  /\ response = NoResponse
  /\ profileContext = <<>>
  /\ invocation = [pc |-> "idle", history |-> <<>>, input |-> <<>>, loading |-> FALSE, calls |-> 0]
  /\ netLog = <<>>
  /\ storeLog = <<>>
  /\ results = <<>>

\* the user types and presses Ask (the button is disabled while loading):
\* sendMessage up to the first await inside handleMessageRaw
FreeSendMessage ==
  /\ invocation.pc = "idle"
  /\ ~invocation.loading
  /\ invocation.calls < MaxFreeCalls
  /\ \E input \in FreeInputs :
       LET text == Trim(input)
       IN invocation' =
            IF text = <<>>
            THEN [invocation EXCEPT !.input = input, !.calls = @ + 1]
            ELSE [invocation EXCEPT !.pc = "handling", !.input = <<>>, !.loading = TRUE,
                                    !.calls = @ + 1,
                                    !.history = Append(@, [from |-> "user", text |-> text])]
  /\ UNCHANGED <<rateVars, respVars, tagVars, storeVars, profileContext, netLog, storeLog, results>>

\* handleMessageRaw settles: finally { setLoading(false) }; sendMessage
\* appends the reply, or ends with the rejection it does not catch
FreeMessageHandled ==
  /\ invocation.pc = "handling"
  /\ LET text == invocation.history[Len(invocation.history)].text
         handled == HandleMessageRaw(text, request.sc.pid, request.sc).result
     IN IF "reply" \in DOMAIN handled
        THEN /\ invocation' = [invocation EXCEPT !.pc = "idle", !.loading = FALSE,
                                 !.history = Append(@, [from |-> "bot", text |-> handled.reply])]
             /\ results' = results
        ELSE /\ invocation' = [invocation EXCEPT !.pc = "idle", !.loading = FALSE]
             /\ results' = Append(results, handled)
  /\ UNCHANGED <<rateVars, respVars, tagVars, storeVars, profileContext, netLog, storeLog>>

NextFreeChat == FreeSendMessage \/ FreeMessageHandled

SpecFreeChat == InitFreeChat /\ [][NextFreeChat]_vars

\* a read of the document store resolves or rejects in the end
SpecFreeChatFair == SpecFreeChat /\ WF_vars(FreeMessageHandled)

\* the k-th entry of the history is a message of the user
UserMessageAt(k) ==
  Len(invocation.history) >= k /\ invocation.history[k].from = "user"

\* the entry after the k-th is a reply, and the one after that is not
OneReplyAfter(k) ==
  /\ Len(invocation.history) > k
  /\ invocation.history[k + 1].from = "bot"
  /\ Len(invocation.history) > k + 1 => invocation.history[k + 2].from = "user"

\* C30: in the free assistant every user message that sendMessage appends to
\* the history is in the end followed by exactly one bot reply, and loading
\* is false again once the call has finished, in every branch of
\* handleMessageRaw and also when a read of the document store fails.
C30_EveryMessageAnswered ==
  /\ \A k \in 1..(2 * MaxFreeCalls) : UserMessageAt(k) ~> OneReplyAfter(k)
  /\ [](invocation.pc = "idle" => ~invocation.loading)

\* what holds: loading is false whenever no call is running, no reply
\* stands without the user message before it, and a message that got no
\* reply ended in a rejection
LoadingResetAndRepliesPaired ==
  /\ invocation.pc = "idle" => ~invocation.loading
  /\ \A k \in 1..Len(invocation.history) :
       invocation.history[k].from = "bot" => (k > 1 /\ invocation.history[k - 1].from = "user")
  /\ Len(SelectSeq(invocation.history, LAMBDA m : m.from = "user"))
       = Len(SelectSeq(invocation.history, LAMBDA m : m.from = "bot")) + Len(results)
          + (IF invocation.pc = "handling" THEN 1 ELSE 0)

\* the search read failed: the call has finished, loading is false, and the
\* user's message stands last in the history
C30_Witness ==
  /\ invocation.pc = "idle"
  /\ ~invocation.loading
  /\ invocation.history = <<[from |-> "user", text |-> <<"p", "a", "n", "d", "a", "s">>]>>
  /\ results = <<[thrown |-> "getDocs"]>>

====
